---- MODULE Spec2Model ----
(***************************************************************************)
(* A model of jett (github.com/saurabh0719/jett): the Router with its      *)
(* middleware stack and subrouters (src/jett.go), the development server   *)
(* with graceful shutdown (Router.runServer), and the request-ID           *)
(* middleware (middleware/requestID.go).                                   *)
(*                                                                         *)
(* Strings are sequences of one-character strings, so that path joining,   *)
(* path cleaning and number formatting are computed character by           *)
(* character, as the code does.                                            *)
(*                                                                         *)
(* The module holds four specifications over one set of variables; each    *)
(* leaves the variables of the other parts at their initial values:        *)
(*   SpecPath    getFullPath as a pure function of (prefix, sub-path)      *)
(*   SpecRouter  New / Use / Subrouter / Handle / ServeHTTP                *)
(*   SpecServer  runServer, its listener goroutine, signals, requests      *)
(*   SpecReqID   RequestID / RequestIDFromCustomHeader under concurrency   *)
(***************************************************************************)
EXTENDS Integers, Sequences, FiniteSets, TLC

VARIABLES
    \* ---- getFullPath as a pure function (SpecPath)
    pPrefix,      \* the receiver's pathPrefix
    pSub,         \* the subPath argument
    pOut,         \* the value returned
    pDone,        \* whether getFullPath has been applied
    \* ---- router tree (SpecRouter)
    heap,         \* backing arrays of the middleware slices: array id -> cells
    routers,      \* the Router values created so far, root first
    routes,       \* registrations made in the shared httprouter, in order
    nextMw,       \* next unused wrapper identity
    trace,        \* wrappers and handler executed by the last request served
    servedRoute,  \* index in routes of the last request's route, 0 if none
    regPanic,     \* httprouter panicked on a registration
    notFound,     \* per engine, the NotFound handler it holds (0: none)
    lastReq,      \* the last request dispatched: method, path, result, the
                  \* not-found handler that answered it (by), the wrappers
                  \* that answer it without calling the next handler (stopped)
                  \* and the router whose ServeHTTP got it (via, 0: any)
    \* ---- runServer (SpecServer)
    pc,           \* where runServer is, or how the process ended
    listener,     \* the goroutine running ListenAndServe(TLS)
    notified,     \* signal.Notify(stopServer, ...) is in force
    stopServer,   \* signals buffered in the channel stopServer (capacity 1)
    signals,      \* termination signals delivered to the process so far
    hasCtx,       \* the caller's context can be cancelled (RunWithContext)
    ctxDone,      \* the caller's context is cancelled
    inShutdown,   \* server.Shutdown has closed the listeners
    requests,     \* each request: "none", "active", "done" or "cut"
    elapsed,      \* ticks (seconds) since the drain context was created
    drainCtx,     \* the drain context: "none", "live" or "cancelled"
    totalFns,     \* len(onShutdownFns)
    callNo,       \* the cleanup loop's counter j: the j-th call of totalFns
    started,      \* cleanup callbacks in the order they were called
    returned,     \* cleanup callbacks in the order they returned
    observed,     \* the case the select took: "none", "signal" or "ctx"
    selects,      \* times the select returned
    drains,       \* times server.Shutdown was called
    drainEnd,     \* how server.Shutdown ended: "none", "idle" or "deadline"
    exitCause,    \* which log.Fatalf ended the process, "none" if none
    triggered,    \* a signal reached stopServer or the context was cancelled
    atTrigger,    \* the requests in flight at that first trigger
    isTLS,        \* certFile or keyFile is set: ListenAndServeTLS is used
    listenErr,    \* the error ListenAndServe(TLS) returned, "none" while it runs
    lnerr,        \* the error closing the listeners gave server.Shutdown
    \* ---- request-ID middleware (SpecReqID)
    prefix,       \* the process's identifier prefix, set by init()
    reqid,        \* the shared request counter
    calls,        \* each request passing through the middleware
    mintOrder,    \* the values atomic.AddUint64 returned, in the order of the adds
    probe,        \* one call of GetRequestID on a context of the caller's making
    \* ---- response renderers and response-writing middleware (SpecResponse)
    resp,         \* the http.ResponseWriter of one request
    op            \* the call made with it, its arguments and what it did

pathVars   == <<pPrefix, pSub, pOut, pDone>>
routerVars == <<heap, routers, routes, nextMw, trace, servedRoute, regPanic,
                notFound, lastReq>>
serverVars == <<pc, listener, notified, stopServer, signals, hasCtx, ctxDone,
                inShutdown, requests, elapsed, drainCtx, totalFns, callNo, started,
                returned, observed, selects, drains, drainEnd, exitCause, triggered,
                atTrigger, isTLS, listenErr, lnerr>>
reqidVars  == <<prefix, reqid, calls, mintOrder, probe>>
respVars   == <<resp, op>>
vars       == <<pathVars, routerVars, serverVars, reqidVars, respVars>>

(***************************************************************************)
(* Bounds of the model.                                                    *)
(***************************************************************************)
MaxPathLen == 3
MaxRouters == 3
MaxWrappers == 5
MaxUseArgs == 2
MaxRoutes == 1
MaxRouteMw == 2
MaxAnyRoutes == 8
MaxEngineWrappers == 1
MaxNotFoundCalls == 3
MaxStops == 2
MaxCallbacks == 2
MaxRequests == 2
MaxSignals == 2
MaxCalls == 3
MaxInFlight == 2
MaxDownstream == 2
MaxSteps == 3
MaxFiles == 2
\* the counter is a uint64; the model keeps CounterBits bits of it
CounterBits == 4

(***************************************************************************)
(* Program constants.                                                      *)
(***************************************************************************)
\* context.WithTimeout(context.Background(), 5*time.Second)
DrainWindow == 5
\* fmt.Sprintf("%s-%06d", prefix, myid)
IDWidth == 6

(***************************************************************************)
(* Strings.                                                                *)
(***************************************************************************)
Slash == "/"
Dot   == "."

PathAlphabet == {Slash, Dot, "a", "b"}

RECURSIVE SeqsUpTo(_, _)
SeqsUpTo(S, n) ==
    IF n = 0 THEN {<<>>}
    ELSE LET shorter == SeqsUpTo(S, n - 1)
         IN  shorter \cup {Append(s, c) : s \in {t \in shorter : Len(t) = n - 1}, c \in S}

(***************************************************************************)
(* httprouter.CleanPath, the canonical form getFullPath returns.  p is     *)
(* read at index r (0-based in the code, so p[r] is p[r + 1] here); out is *)
(* the buffer written so far, buf[0..w-1], so w = Len(out).                *)
(***************************************************************************)
At(p, r) == p[r + 1]

RECURSIVE BackTo(_, _)
BackTo(out, w) ==
    IF w > 1 /\ out[w + 1] # Slash THEN BackTo(out, w - 1) ELSE SubSeq(out, 1, w)

\* ".." element: remove to the last slash
Backtrack(out) ==
    IF Len(out) > 1 THEN BackTo(out, Len(out) - 1) ELSE out

RECURSIVE CopyElement(_, _, _)
CopyElement(p, r, out) ==
    IF r < Len(p) /\ At(p, r) # Slash
    THEN CopyElement(p, r + 1, Append(out, At(p, r)))
    ELSE [r |-> r, out |-> out]

RECURSIVE CleanLoop(_, _, _, _)
CleanLoop(p, r, out, trailing) ==
    LET n == Len(p) IN
    IF r >= n THEN
        \* re-append trailing slash
        IF trailing /\ Len(out) > 1 THEN Append(out, Slash) ELSE out
    ELSE IF At(p, r) = Slash THEN
        \* empty path element, trailing slash is added after the end
        CleanLoop(p, r + 1, out, trailing)
    ELSE IF At(p, r) = Dot /\ r + 1 = n THEN
        CleanLoop(p, r + 1, out, TRUE)
    ELSE IF At(p, r) = Dot /\ At(p, r + 1) = Slash THEN
        \* . element
        CleanLoop(p, r + 2, out, trailing)
    ELSE IF At(p, r) = Dot /\ At(p, r + 1) = Dot
            /\ (r + 2 = n \/ At(p, r + 2) = Slash) THEN
        \* .. element
        CleanLoop(p, r + 3, Backtrack(out), trailing)
    ELSE
        \* real path element: add a slash if needed, then copy the element
        LET start == IF Len(out) > 1 THEN Append(out, Slash) ELSE out
            c     == CopyElement(p, r, start)
        IN  CleanLoop(p, c.r, c.out, trailing)

CleanPath(p) ==
    IF p = <<>> THEN <<Slash>>
    ELSE LET n        == Len(p)
             trailing == n > 1 /\ p[n] = Slash
         IN  CleanLoop(p, IF p[1] = Slash THEN 1 ELSE 0, <<Slash>>, trailing)

JoinPath(pathPrefix, subPath) == pathPrefix \o subPath

\* a plausible slip: the joined path is returned as it is
JoinOnly(pathPrefix, subPath) == JoinPath(pathPrefix, subPath)

\* Router.getFullPath
getFullPath(pathPrefix, subPath) == CleanPath(JoinPath(pathPrefix, subPath))

(***************************************************************************)
(* SpecPath: getFullPath applied to a prefix and a sub-path.  A prefix     *)
(* starts with "/" (New sets "/", and the tests set the field directly).   *)
(***************************************************************************)
NamedPaths ==
    { <<"/", "o", "n", "e">>, <<"/", "o", "n", "e", "/">>, <<"/", "t", "w", "o">>,
      <<"/", "a", "/", "/">>, <<"/", "/", "b">>, <<"/", "a", "b", "o", "u", "t">> }

SubPathInputs == SeqsUpTo(PathAlphabet, MaxPathLen) \cup NamedPaths

PrefixInputs ==
    {<<Slash>> \o s : s \in SeqsUpTo(PathAlphabet, MaxPathLen - 1)} \cup NamedPaths

InitPathVars ==
    /\ pPrefix = <<Slash>>
    /\ pSub = <<>>
    /\ pOut = <<>>
    /\ pDone = FALSE

InitRouterVars ==
    /\ heap = <<>>
    /\ routers = <<>>
    /\ routes = <<>>
    /\ nextMw = 1
    /\ trace = <<>>
    /\ servedRoute = 0
    /\ regPanic = FALSE
    /\ notFound = [e \in 1..MaxRouters |-> 0]
    /\ lastReq = [method |-> "", path |-> <<>>, result |-> "none", by |-> 0, stopped |-> {},
                  via |-> 0]

InitServerVars ==
    /\ pc = "start"
    /\ listener = "none"
    /\ notified = FALSE
    /\ stopServer = 0
    /\ signals = 0
    /\ hasCtx = FALSE
    /\ ctxDone = FALSE
    /\ inShutdown = FALSE
    /\ requests = [i \in 1..MaxRequests |-> "none"]
    /\ elapsed = 0
    /\ drainCtx = "none"
    /\ totalFns = 0
    /\ callNo = 1
    /\ started = <<>>
    /\ returned = <<>>
    /\ observed = "none"
    /\ selects = 0
    /\ drains = 0
    /\ drainEnd = "none"
    /\ exitCause = "none"
    /\ triggered = FALSE
    /\ atTrigger = {}
    /\ listenErr = "none"
    /\ lnerr = "nil"
    /\ isTLS = FALSE

InitReqidVars ==
    /\ prefix = <<"h", "/", "r">>
    /\ reqid = 0
    /\ calls = [i \in 1..MaxCalls |->
                    [st |-> "none", headerKey |-> "", header |-> <<>>, requestID |-> <<>>,
                     myid |-> 0, reqCtx |-> <<>>, ctx |-> <<>>, seen |-> <<>>,
                     seenBy |-> <<>>]]
    /\ mintOrder = <<>>
    /\ probe = [ctx |-> <<>>, out |-> <<>>, done |-> FALSE]

\* a response nothing was written to: no header, no status, no body
EmptyHeader == [k \in {} |-> <<>>]

NewResponse ==
    [header |-> EmptyHeader, wroteHeader |-> FALSE, status |-> 0,
     sent |-> EmptyHeader, body |-> <<>>]

\* no call made yet; the fields a call does not use keep these values
NoOp ==
    [fn |-> "none", status |-> 0, data |-> <<>>, files |-> <<>>, script |-> <<>>,
     panic |-> "none", propagated |-> FALSE, realm |-> "", credentials |-> EmptyHeader,
     auth |-> [present |-> FALSE, scheme |-> "", valid |-> FALSE, text |-> <<>>],
     invoked |-> FALSE, nilPanics |-> FALSE, method |-> "", path |-> <<>>,
     endpoint |-> <<>>]

InitRespVars ==
    /\ resp = NewResponse
    /\ op = NoOp

InitPath ==
    /\ pPrefix \in PrefixInputs
    /\ pSub \in SubPathInputs
    /\ pOut = <<>>
    /\ pDone = FALSE
    /\ InitRouterVars
    /\ InitServerVars
    /\ InitReqidVars
    /\ InitRespVars

ApplyGetFullPath ==
    /\ ~pDone
    /\ pOut' = getFullPath(pPrefix, pSub)
    /\ pDone' = TRUE
    /\ UNCHANGED <<pPrefix, pSub, routerVars, serverVars, reqidVars, respVars>>

NextPath == ApplyGetFullPath

SpecPath == InitPath /\ [][NextPath]_vars

(***************************************************************************)
(* Go slices.  A slice is (array, len, cap); the nil slice has no array.   *)
(* heap[a] holds the cap cells of array a, 0 in a cell never written.      *)
(***************************************************************************)
NilSlice == [arr |-> 0, len |-> 0, cap |-> 0]

SliceElems(h, s) == [i \in 1..s.len |-> h[s.arr][i]]

\* the size class an allocation of c one-word cells is rounded up to
RoundUpCap(c) == IF c <= 4 THEN c ELSE c + (c % 2)

\* capacity of the array append allocates when newLen does not fit oldCap
GrowCap(oldCap, newLen) ==
    IF newLen > oldCap + oldCap THEN RoundUpCap(newLen) ELSE RoundUpCap(oldCap + oldCap)

\* append(s, xs...): in place when the capacity allows, else into a new array
GoAppend(h, s, xs) ==
    LET newLen == s.len + Len(xs) IN
    IF Len(xs) = 0 THEN [heap |-> h, slice |-> s]
    ELSE IF newLen <= s.cap THEN
        [heap  |-> [h EXCEPT ![s.arr] =
                       [i \in 1..s.cap |->
                           IF i > s.len /\ i <= newLen THEN xs[i - s.len] ELSE @[i]]],
         slice |-> [s EXCEPT !.len = newLen]]
    ELSE
        LET newCap == GrowCap(s.cap, newLen)
            cells  == [i \in 1..newCap |->
                          IF i <= s.len THEN h[s.arr][i]
                          ELSE IF i <= newLen THEN xs[i - s.len]
                          ELSE 0]
        IN  [heap  |-> Append(h, cells),
             slice |-> [arr |-> Len(h) + 1, len |-> newLen, cap |-> newCap]]

(***************************************************************************)
(* Handlers.  A wrapper applied to a handler gives a handler that runs the *)
(* wrapper and, from inside it, the handler it wraps.  Router-level        *)
(* wrappers are 1, 2, ...; the wrappers passed to Handle are -1, -2, ...;  *)
(* the terminal handler is 0.                                              *)
(***************************************************************************)
Terminal == [kind |-> "handler", id |-> 0]

Wrap(m, next) == [kind |-> "mw", id |-> m, next |-> next]

RECURSIVE RunHandler(_)
RunHandler(h) ==
    IF h.kind = "handler" THEN <<h.id>> ELSE <<h.id>> \o RunHandler(h.next)

\* a plausible slip: a wrapper that responds goes on to call the next handler
RunThrough(h, stops) == RunHandler(h)

\* the handlers that run when the wrappers in stops respond and return
\* without calling next.ServeHTTP
RECURSIVE RunUntil(_, _)
RunUntil(h, stops) ==
    IF h.kind = "handler" \/ h.id \in stops THEN <<h.id>>
    ELSE <<h.id>> \o RunUntil(h.next, stops)

\* a plausible slip: the loop runs upward, first wrapper innermost
RECURSIVE ApplyForward(_, _, _)
ApplyForward(list, i, handler) ==
    IF i < 1 THEN handler
    ELSE Wrap(list[i], ApplyForward(list, i - 1, handler))

\* a plausible slip: the loop stops at i > 0 and leaves the first wrapper out
RECURSIVE ApplyFromSecond(_, _, _)
ApplyFromSecond(list, i, handler) ==
    IF i < 2 THEN handler
    ELSE ApplyFromSecond(list, i - 1, Wrap(list[i], handler))

\* for i := len(list) - 1; i >= 0; i-- { handler = list[i](handler) }
RECURSIVE ApplyMiddleware(_, _, _)
ApplyMiddleware(list, i, handler) ==
    IF i < 1 THEN handler
    ELSE ApplyMiddleware(list, i - 1, Wrap(list[i], handler))

RouteMiddleware(k) == [j \in 1..k |-> 0 - j]

(***************************************************************************)
(* Routers.  parent, born, snap and uses record the history of the calls   *)
(* and are read by no operation: parent is the router Subrouter was called *)
(* on, born the number of wrappers the parent had added by Use until then, *)
(* snap the parent's stack at that call, uses this router's own additions. *)
(* A registration likewise records the router it was made on, the stack    *)
(* and the route middleware Handle read, and how many wrappers the router  *)
(* (usesAtReg) and the program (madeAtReg) had added by then.              *)
(***************************************************************************)
Root == 1

Stack(h, rs, r) == SliceElems(h, rs[r].middleware)

\* the paths passed to Subrouter and to Handle
SubrouterPaths == {<<Slash, "a">>}

RoutePaths == {<<Slash, "b">>}

Methods == {"GET"}

\* New: a fresh httprouter engine, the root prefix, no middleware
NewRouter ==
    [router |-> 1, middleware |-> NilSlice, pathPrefix |-> <<Slash>>,
     parent |-> 0, path |-> <<>>, born |-> 0, snap |-> <<>>, uses |-> <<>>,
     nfCall |-> 0]

\* a plausible slip: the subrouter is given an engine of its own
FreshEngine(rs, r) == Len(rs) + 1

\* router: r.router
SharedEngine(rs, r) == rs[r].router

\* the slice a subrouter starts with
SharedToCapacity(s) == [s EXCEPT !.len = s.cap]

InheritedMiddleware(s) == s

Use(r, k) ==
    /\ ~regPanic
    /\ nextMw + k - 1 <= MaxWrappers
    /\ LET xs  == [j \in 1..k |-> nextMw + j - 1]
           res == GoAppend(heap, routers[r].middleware, xs)
       IN  /\ heap' = res.heap
           /\ routers' = [routers EXCEPT ![r].middleware = res.slice,
                                         ![r].uses = @ \o xs]
    /\ nextMw' = nextMw + k
    /\ UNCHANGED <<routes, trace, servedRoute, regPanic, notFound, lastReq>>
    /\ UNCHANGED <<pathVars, serverVars, reqidVars, respVars>>

Subrouter(r, path) ==
    /\ ~regPanic
    /\ Len(routers) < MaxRouters
    /\ routers' = Append(routers,
           [router     |-> SharedEngine(routers, r),
            middleware |-> InheritedMiddleware(routers[r].middleware),
            pathPrefix |-> getFullPath(routers[r].pathPrefix, path),
            parent     |-> r,
            path       |-> path,
            born       |-> Len(routers[r].uses),
            snap       |-> Stack(heap, routers, r),
            uses       |-> <<>>,
            nfCall     |-> 0])
    /\ UNCHANGED <<heap, routes, nextMw, trace, servedRoute, regPanic, notFound, lastReq>>
    /\ UNCHANGED <<pathVars, serverVars, reqidVars, respVars>>

Registered(rts, engine, method, fullPath) ==
    \E q \in 1..Len(rts) :
        rts[q].engine = engine /\ rts[q].method = method /\ rts[q].path = fullPath

\* what Handle computes before it calls the engine: the full path and the
\* handler wrapped by the route middleware, then by the router's stack.
\* call is 0, or tells which call of Any made the registration.
Registration(r, method, path, k, call) ==
    LET fullPath == getFullPath(routers[r].pathPrefix, path)
        inner    == RouteMiddleware(k)
        outer    == Stack(heap, routers, r)
        handler  == ApplyMiddleware(outer, Len(outer),
                        ApplyMiddleware(inner, Len(inner), Terminal))
    IN  [engine |-> routers[r].router, method |-> method, path |-> fullPath,
         handler |-> handler, router |-> r, outer |-> outer, inner |-> inner,
         usesAtReg |-> Len(routers[r].uses), madeAtReg |-> nextMw - 1,
         call |-> call]

\* the method and the full path are taken in the router's engine
Taken(rts, r, method, path) ==
    Registered(rts, routers[r].router, method, getFullPath(routers[r].pathPrefix, path))

\* a plausible slip: a route is answered for HEAD as well as for its method
InsertWithHead(rts, r, method, path, k, call) ==
    IF Taken(rts, r, method, path)
    THEN [routes |-> rts, panic |-> TRUE]
    ELSE [routes |-> Append(Append(rts, Registration(r, method, path, k, call)),
                            Registration(r, "HEAD", path, k, call)),
          panic |-> FALSE]

\* r.router.Handler(method, fullPath, handler) at the end of Handle:
\* httprouter panics when the method and path are taken
Insert(rts, r, method, path, k, call) ==
    IF Taken(rts, r, method, path)
    THEN [routes |-> rts, panic |-> TRUE]
    ELSE [routes |-> Append(rts, Registration(r, method, path, k, call)), panic |-> FALSE]

\* Router.Handle
Handle(r, method, path, k) ==
    /\ ~regPanic
    /\ Taken(routes, r, method, path) \/ Len(routes) < MaxRoutes
    /\ LET res == Insert(routes, r, method, path, k, 0)
       IN  /\ routes' = res.routes
           /\ regPanic' = res.panic
    /\ UNCHANGED <<heap, routers, nextMw, trace, servedRoute, notFound, lastReq>>
    /\ UNCHANGED <<pathVars, serverVars, reqidVars, respVars>>

\* a plausible slip: PATCH is left out of the list
MethodsWithoutPatch == <<"GET", "POST", "PUT", "DELETE", "HEAD", "OPTIONS">>

httpMethods == <<"GET", "POST", "PUT", "DELETE", "HEAD", "OPTIONS", "PATCH">>

\* for _, method := range httpMethods { r.Handle(method, path, ...) },
\* left at the first registration that panics
RECURSIVE HandleEach(_, _, _, _, _, _, _)
HandleEach(rts, methods, i, r, path, k, call) ==
    IF i > Len(methods) THEN [routes |-> rts, panic |-> FALSE]
    ELSE LET res == Insert(rts, r, methods[i], path, k, call)
         IN  IF res.panic THEN res
             ELSE HandleEach(res.routes, methods, i + 1, r, path, k, call)

\* Router.Any (Any is a name of the TLC module)
RouterAny(r, path, k) ==
    /\ ~regPanic
    /\ Len(routes) + Len(httpMethods) <= MaxAnyRoutes
    /\ LET res == HandleEach(routes, httpMethods, 1, r, path, k, Len(routes) + 1)
       IN  /\ routes' = res.routes
           /\ regPanic' = res.panic
    /\ UNCHANGED <<heap, routers, nextMw, trace, servedRoute, notFound, lastReq>>
    /\ UNCHANGED <<pathVars, serverVars, reqidVars, respVars>>

\* the number of calls of NotFound so far: a router's nfCall is the ordinal
\* of its latest call, and the handler a call passes is named by its ordinal
RECURSIVE NotFoundCalls(_, _)
NotFoundCalls(rs, i) ==
    IF i = 0 THEN 0
    ELSE LET rest == NotFoundCalls(rs, i - 1)
         IN  IF rs[i].nfCall > rest THEN rs[i].nfCall ELSE rest

\* a plausible slip: a handler already set is kept
KeepNotFound(old, handlerFn) == IF old = 0 THEN handlerFn ELSE old

\* r.router.NotFound = http.HandlerFunc(handlerFn)
SetNotFound(old, handlerFn) == handlerFn

\* Router.NotFound
NotFound(r) ==
    /\ ~regPanic
    /\ NotFoundCalls(routers, Len(routers)) < MaxNotFoundCalls
    /\ LET handlerFn == NotFoundCalls(routers, Len(routers)) + 1
       IN  /\ notFound' = [notFound EXCEPT ![routers[r].router] = SetNotFound(@, handlerFn)]
           /\ routers' = [routers EXCEPT ![r].nfCall = handlerFn]
    /\ UNCHANGED <<heap, routes, nextMw, trace, servedRoute, regPanic, lastReq>>
    /\ UNCHANGED <<pathVars, serverVars, reqidVars, respVars>>

\* a plausible slip: the chain is built when the request is served
ComposedAtServe(q) ==
    LET outer == Stack(heap, routers, routes[q].router)
        inner == routes[q].inner
    IN  ApplyMiddleware(outer, Len(outer), ApplyMiddleware(inner, Len(inner), Terminal))

\* the handler the engine holds for registration q
RouteHandler(q) == routes[q].handler

\* Router.ServeHTTP of a request the engine matches to registration q
ServeHTTP(q) ==
    /\ ~regPanic
    /\ trace' = RunHandler(RouteHandler(q))
    /\ servedRoute' = q
    /\ lastReq' = [method |-> routes[q].method, path |-> routes[q].path,
                   result |-> "route", by |-> 0, stopped |-> {}, via |-> 0]
    /\ UNCHANGED <<heap, routers, routes, nextMw, regPanic, notFound>>
    /\ UNCHANGED <<pathVars, serverVars, reqidVars, respVars>>

\* the engine's lookup: the registrations of the method at the path
Lookup(engine, method, path) ==
    {q \in 1..Len(routes) :
        routes[q].engine = engine /\ routes[q].method = method /\ routes[q].path = path}

\* a path no route is registered at
UnroutedPath == <<Slash, "z">>

\* a plausible slip: a subrouter serves the path below its own prefix
StripPrefix(r, path) ==
    LET pre == routers[r].pathPrefix
    IN  IF Len(pre) > 1 /\ Len(path) > Len(pre) /\ SubSeq(path, 1, Len(pre)) = pre
        THEN SubSeq(path, Len(pre) + 1, Len(path))
        ELSE path

\* handler.ServeHTTP(w, req): the engine gets the request as it came, and
\* looks up req.URL.Path
RequestPath(r, path) == path

\* r.ServeHTTP of any request: the engine r.router runs the handler it holds
\* for the method and path, else its NotFound handler, else http.NotFound;
\* via is what lastReq keeps of the router
DispatchVia(r, method, path, via) ==
    /\ ~regPanic
    /\ LET hits == Lookup(routers[r].router, method, RequestPath(r, path))
       IN  IF hits # {}
           THEN LET q == CHOOSE q \in hits : TRUE
                IN  /\ trace' = RunHandler(RouteHandler(q))
                    /\ servedRoute' = q
                    /\ lastReq' = [method |-> method, path |-> path,
                                   result |-> "route", by |-> 0, stopped |-> {},
                                   via |-> via]
           ELSE /\ trace' = <<>>
                /\ servedRoute' = 0
                /\ lastReq' = [method |-> method, path |-> path,
                               result |-> IF notFound[routers[r].router] # 0
                                          THEN "NotFound" ELSE "http.NotFound",
                               by |-> notFound[routers[r].router], stopped |-> {},
                               via |-> via]
    /\ UNCHANGED <<heap, routers, routes, nextMw, regPanic, notFound>>
    /\ UNCHANGED <<pathVars, serverVars, reqidVars, respVars>>

\* r.ServeHTTP, whichever router it is called on
Dispatch(r, method, path) == DispatchVia(r, method, path, 0)

\* r.ServeHTTP, the router kept
ServeThrough(r, method, path) == DispatchVia(r, method, path, r)

InitRouter ==
    /\ heap = <<>>
    /\ routers = <<NewRouter>>
    /\ routes = <<>>
    /\ nextMw = 1
    /\ trace = <<>>
    /\ servedRoute = 0
    /\ regPanic = FALSE
    /\ notFound = [e \in 1..MaxRouters |-> 0]
    /\ lastReq = [method |-> "", path |-> <<>>, result |-> "none", by |-> 0, stopped |-> {},
                  via |-> 0]
    /\ InitPathVars
    /\ InitServerVars
    /\ InitReqidVars
    /\ InitRespVars

NextRouter ==
    \/ \E r \in 1..Len(routers), k \in 1..MaxUseArgs : Use(r, k)
    \/ \E r \in 1..Len(routers), path \in SubrouterPaths : Subrouter(r, path)
    \/ \E r \in 1..Len(routers), method \in Methods, path \in RoutePaths,
          k \in 0..MaxRouteMw : Handle(r, method, path, k)
    \/ \E q \in 1..Len(routes) : ServeHTTP(q)

SpecRouter == InitRouter /\ [][NextRouter]_vars

(***************************************************************************)
(* SpecEngine: the router tree with the engine's lookup.  Few wrappers,    *)
(* more prefixes, Any and NotFound, and requests of any method and path.   *)
(***************************************************************************)
EnginePrefixes ==
    { <<"b">>, <<Slash, Slash, "a", Slash>>, <<Slash, "a", "b", "o", "u", "t">> }

HandleMethods == {"POST", "TRACE"}

RequestMethods == {"PATCH", "TRACE"}

RequestPaths == {routes[q].path : q \in 1..Len(routes)} \cup {UnroutedPath}

NextEngine ==
    \/ \E r \in 1..Len(routers) : nextMw <= MaxEngineWrappers /\ Use(r, 1)
    \/ \E r \in 1..Len(routers), path \in EnginePrefixes : Subrouter(r, path)
    \/ \E r \in 1..Len(routers), method \in HandleMethods, path \in RoutePaths :
            Handle(r, method, path, 0)
    \/ \E r \in 1..Len(routers), path \in RoutePaths : RouterAny(r, path, 1)
    \/ NotFoundCalls(routers, Len(routers)) = 0 /\ NotFound(Root)
    \/ \E r \in 1..Len(routers), method \in RequestMethods, path \in RequestPaths :
            Dispatch(r, method, path)

SpecEngine == InitRouter /\ [][NextEngine]_vars

(***************************************************************************)
(* SpecChain: the root with its wrappers, its subrouters, routes of two    *)
(* methods with route wrappers, and requests some wrappers of the chain    *)
(* answer themselves.                                                      *)
(***************************************************************************)
ChainMethods == {"GET", "POST"}

\* the wrappers of the chain of registration q
ChainIds(q) ==
    {routes[q].outer[j] : j \in 1..Len(routes[q].outer)} \cup
    {routes[q].inner[j] : j \in 1..Len(routes[q].inner)}

\* the wrappers that answer a request themselves: at most MaxStops of the chain
StopSets(q) == {stops \in SUBSET ChainIds(q) : Cardinality(stops) <= MaxStops}

\* Router.ServeHTTP of a request the engine matches to registration q, when
\* the wrappers in stops respond without calling the next handler
ServeShort(q, stops) ==
    /\ ~regPanic
    /\ trace' = RunUntil(RouteHandler(q), stops)
    /\ servedRoute' = q
    /\ lastReq' = [method |-> routes[q].method, path |-> routes[q].path,
                   result |-> "route", by |-> 0, stopped |-> stops, via |-> 0]
    /\ UNCHANGED <<heap, routers, routes, nextMw, regPanic, notFound>>
    /\ UNCHANGED <<pathVars, serverVars, reqidVars, respVars>>

NextChain ==
    \/ \E k \in 1..MaxUseArgs : Use(Root, k)
    \/ \E path \in SubrouterPaths : Subrouter(Root, path)
    \/ \E r \in 1..Len(routers), method \in ChainMethods, path \in RoutePaths,
          k \in 0..MaxRouteMw : Handle(r, method, path, k)
    \/ \E q \in 1..Len(routes) : \E stops \in StopSets(q) : ServeShort(q, stops)

SpecChain == InitRouter /\ [][NextChain]_vars

(***************************************************************************)
(* SpecNotFound: a tree whose routers set the not-found handler in turn,   *)
(* one route, and requests that match it or nothing.                       *)
(***************************************************************************)
NextNotFound ==
    \/ \E r \in 1..Len(routers), path \in SubrouterPaths : Subrouter(r, path)
    \/ \E r \in 1..Len(routers) : NotFound(r)
    \/ \E r \in 1..Len(routers), method \in Methods, path \in RoutePaths :
            Handle(r, method, path, 0)
    \/ \E r \in 1..Len(routers), method \in Methods, path \in RequestPaths :
            Dispatch(r, method, path)

SpecNotFound == InitRouter /\ [][NextNotFound]_vars

(***************************************************************************)
(* SpecTree: a tree of routers with routes of its own on each, the         *)
(* not-found handler set or not, and requests of any method and path       *)
(* served through each router.                                             *)
(***************************************************************************)
NextTree ==
    \/ \E r \in 1..Len(routers), path \in EnginePrefixes : Subrouter(r, path)
    \/ \E r \in 1..Len(routers), method \in HandleMethods, path \in RoutePaths :
            Handle(r, method, path, 0)
    \/ \E r \in 1..Len(routers), path \in RoutePaths : RouterAny(r, path, 0)
    \/ NotFoundCalls(routers, Len(routers)) = 0 /\ NotFound(Root)
    \/ \E r \in 1..Len(routers), method \in RequestMethods, path \in RequestPaths :
            ServeThrough(r, method, path)

SpecTree == InitRouter /\ [][NextTree]_vars

(***************************************************************************)
(* Properties of the router tree.                                          *)
(***************************************************************************)
Count(seq, x) == Cardinality({i \in DOMAIN seq : seq[i] = x})

Ran(q) == LET t == RunHandler(routes[q].handler) IN {t[i] : i \in DOMAIN t}

\* C1: a request runs the router's wrappers in insertion order, then the
\* route's wrappers in insertion order, then the handler, each exactly once.
C1_ExecutionOrder ==
    servedRoute # 0 =>
        LET q == routes[servedRoute] IN
        /\ trace = q.outer \o q.inner \o <<0>>
        /\ \A i \in DOMAIN trace : Count(trace, trace[i]) = 1

C1_Witness ==
    /\ servedRoute # 0
    /\ routes[servedRoute].outer = <<1, 2>>
    /\ routes[servedRoute].inner = <<0 - 1, 0 - 2>>
    /\ trace = <<1, 2, 0 - 1, 0 - 2, 0>>

OnlyRootUses == \A r \in 2..Len(routers) : routers[r].uses = <<>>

\* C2: with Use called on the root only, a route registered on a subrouter
\* of the root runs the wrappers the root had when the subrouter was created
\* and none the root added later; a route registered on the root runs every
\* wrapper the root had added before the registration.
C2_SubrouterIsolation ==
    OnlyRootUses =>
        \A q \in 1..Len(routes) :
            LET r        == routes[q].router
                rootUses == routers[Root].uses
            IN  IF r = Root
                THEN \A i \in 1..routes[q].usesAtReg : rootUses[i] \in Ran(q)
                ELSE routers[r].parent = Root =>
                        \A i \in 1..Len(rootUses) :
                            (i <= routers[r].born) <=> (rootUses[i] \in Ran(q))

\* r.Use(A); sr := r.Subrouter(..); r.Use(B); sr.Handle(..); request served
C2_Witness ==
    /\ Len(routers) >= 2
    /\ routers[2].parent = Root /\ routers[2].born = 1 /\ routers[2].uses = <<>>
    /\ routers[Root].uses = <<1, 2>>
    /\ servedRoute # 0
    /\ routes[servedRoute].router = 2
    /\ routes[servedRoute].madeAtReg = 2
    /\ 1 \in Ran(servedRoute) /\ 2 \notin Ran(servedRoute)

\* C3: a subrouter's stack is the parent's stack at the moment of creation
\* followed by the subrouter's own Use additions, whatever is appended to
\* other routers afterwards.
C3_SnapshotStable ==
    \A r \in 2..Len(routers) :
        Stack(heap, routers, r) = routers[r].snap \o routers[r].uses

\* C9: getFullPath joins "/a/" and "/b", "/a" and "b", "/a//" and "//b" to
\* "/a/b"; "/" and "/one" to "/one"; "/one/" and "/two" to "/one/two".
C9_JoinCases ==
    pDone =>
        /\ (pPrefix = <<"/", "a", "/">> /\ pSub = <<"/", "b">>
                => pOut = <<"/", "a", "/", "b">>)
        /\ (pPrefix = <<"/", "a">> /\ pSub = <<"b">>
                => pOut = <<"/", "a", "/", "b">>)
        /\ (pPrefix = <<"/", "a", "/", "/">> /\ pSub = <<"/", "/", "b">>
                => pOut = <<"/", "a", "/", "b">>)
        /\ (pPrefix = <<"/">> /\ pSub = <<"/", "o", "n", "e">>
                => pOut = <<"/", "o", "n", "e">>)
        /\ (pPrefix = <<"/", "o", "n", "e", "/">> /\ pSub = <<"/", "t", "w", "o">>
                => pOut = <<"/", "o", "n", "e", "/", "t", "w", "o">>)

\* C15: every router of the tree holds the root's engine, and every
\* registration, made through whichever router, is in that engine, where a
\* request served through any router finds it.
C15_SharedEngine ==
    /\ \A r \in 1..Len(routers) : routers[r].router = routers[Root].router
    /\ \A q \in 1..Len(routes) : routes[q].engine = routers[Root].router
    /\ servedRoute # 0 => routes[servedRoute].engine = routers[Root].router

\* a route registered on a subrouter of a subrouter was found by the engine
C15_Witness ==
    /\ Len(routers) = 3
    /\ routers[3].parent = 2
    /\ servedRoute # 0
    /\ routes[servedRoute].router = 3
    /\ lastReq.result = "route"

\* C16: a request to a route registered on a subrouter runs the parent's
\* stack as it was when the subrouter was created, then the wrappers the
\* subrouter's own Use calls added before the registration, then the route's
\* wrappers, then the handler.
C16_SubrouterOrder ==
    servedRoute # 0 =>
        LET q == routes[servedRoute]
            r == q.router
        IN  r # Root =>
                trace = routers[r].snap \o SubSeq(routers[r].uses, 1, q.usesAtReg)
                            \o q.inner \o <<0>>

\* C17: a request runs no wrapper created after its route was registered;
\* in particular none that Use added to the route's router afterwards.
C17_NoRetroactiveUse ==
    servedRoute # 0 =>
        LET q    == routes[servedRoute]
            uses == routers[q.router].uses
        IN  /\ \A i \in DOMAIN trace : trace[i] <= q.madeAtReg
            /\ \A j \in (q.usesAtReg + 1)..Len(uses) : Count(trace, uses[j]) = 0

\* r.Use(A); r.Handle(..); r.Use(B); the route is served
C17_Witness ==
    /\ servedRoute # 0
    /\ routes[servedRoute].usesAtReg = 1
    /\ Len(routers[routes[servedRoute].router].uses) >= 2
    /\ trace = routes[servedRoute].outer \o routes[servedRoute].inner \o <<0>>
    /\ Len(routes[servedRoute].outer) >= 1

\* C19: with no router wrapper and no route wrapper the registered handler
\* is the terminal handler itself; with one of the two groups empty the
\* request runs the other group's wrappers in order, then the handler.
C19_EmptyGroups ==
    \A q \in 1..Len(routes) :
        LET rt == routes[q] IN
        /\ (rt.outer = <<>> /\ rt.inner = <<>>) =>
                /\ rt.handler = Terminal
                /\ servedRoute = q => trace = <<0>>
        /\ (rt.outer = <<>> /\ rt.inner # <<>>) =>
                /\ RunHandler(rt.handler) = rt.inner \o <<0>>
                /\ servedRoute = q => trace = rt.inner \o <<0>>
        /\ (rt.outer # <<>> /\ rt.inner = <<>>) =>
                /\ RunHandler(rt.handler) = rt.outer \o <<0>>
                /\ servedRoute = q => trace = rt.outer \o <<0>>

\* a route with neither group was served
C19_Witness ==
    /\ servedRoute # 0
    /\ routes[servedRoute].outer = <<>>
    /\ routes[servedRoute].inner = <<>>
    /\ routers[Root].uses # <<>>
    /\ trace = <<0>>

PrefixAsCreated(rs) ==
    \A r \in 1..Len(rs) :
        /\ rs[r].pathPrefix # <<>>
        /\ rs[r].pathPrefix[1] = "/"
        /\ r = Root => rs[r].pathPrefix = <<"/">>
        /\ r # Root =>
                rs[r].pathPrefix = CleanPath(rs[rs[r].parent].pathPrefix \o rs[r].path)
        /\ (rs[r].parent = Root /\ rs[r].path = <<"/", "a", "b", "o", "u", "t">>) =>
                rs[r].pathPrefix = <<"/", "a", "b", "o", "u", "t">>

\* C18: every router's pathPrefix starts with "/" and is the cleaned join of
\* its parent's pathPrefix and the path given to Subrouter ("/" for the root,
\* "/about" for r.Subrouter("/about")), and no step changes the pathPrefix of
\* a router that exists.
C18_PrefixFixed ==
    [][/\ PrefixAsCreated(routers)
       /\ PrefixAsCreated(routers')
       /\ \A r \in 1..Len(routers) : routers'[r].pathPrefix = routers[r].pathPrefix]_vars

\* r.Subrouter("//a/").Subrouter("b"), then Use on the first subrouter, a
\* registration and NotFound
C18_Witness ==
    /\ Len(routers) = 3
    /\ routers[2].path = <<"/", "/", "a", "/">>
    /\ routers[2].pathPrefix = <<"/", "a", "/">>
    /\ routers[3].parent = 2
    /\ routers[3].path = <<"b">>
    /\ routers[3].pathPrefix = <<"/", "a", "/", "b">>
    /\ routers[2].uses # <<>>
    /\ routers[3].snap = <<>>
    /\ Len(routes) >= 1
    /\ notFound[Root] # 0

SevenVerbs == {"GET", "POST", "PUT", "DELETE", "HEAD", "OPTIONS", "PATCH"}

AnyCalls == {routes[q].call : q \in 1..Len(routes)} \ {0}

RoutesOf(c) == {q \in 1..Len(routes) : routes[q].call = c}

\* C20: the registrations of one call of Any hold the same handler at the
\* same full path, the cleaned join of the router's pathPrefix and the path,
\* one for each of GET, POST, PUT, DELETE, HEAD, OPTIONS and PATCH and for no
\* other method (fewer only when a registration panicked); a request with
\* another method is never dispatched to a registration of Any, and one
\* with a method of the seven that finds the route runs its handler.
C20_AnyVerbs ==
    /\ \A c \in AnyCalls :
            LET qs      == RoutesOf(c)
                methods == {routes[q].method : q \in qs}
            IN  /\ \A q \in qs :
                        /\ routes[q].handler = routes[c].handler
                        /\ routes[q].path = routes[c].path
                        /\ \E path \in RoutePaths :
                                routes[q].path =
                                    CleanPath(routers[routes[q].router].pathPrefix \o path)
                /\ Cardinality(qs) = Cardinality(methods)
                /\ methods \subseteq SevenVerbs
                /\ \/ methods = SevenVerbs
                   \/ regPanic /\ c + Cardinality(qs) - 1 = Len(routes)
    /\ (servedRoute # 0 /\ routes[servedRoute].call # 0) =>
            /\ lastReq.method \in SevenVerbs
            /\ lastReq.method = routes[servedRoute].method
            /\ lastReq.path = routes[servedRoute].path
            /\ trace = RunHandler(routes[servedRoute].handler)
    /\ (lastReq.result = "route" /\ lastReq.method \notin SevenVerbs) =>
            routes[servedRoute].call = 0

\* Any registered its seven routes first; a TRACE request to their path
\* found no handler
C20_Witness ==
    /\ Len(routes) >= 7
    /\ routes[1].call = 1
    /\ {routes[q].method : q \in RoutesOf(1)} = SevenVerbs
    /\ lastReq.method = "TRACE"
    /\ lastReq.path = routes[1].path
    /\ lastReq.result = "http.NotFound"
    /\ servedRoute = 0

\* r and r2 are subrouters of one parent, which added no wrapper after it
\* had created them
Siblings(r, r2) ==
    /\ r # r2
    /\ routers[r].parent # 0
    /\ routers[r].parent = routers[r2].parent
    /\ routers[r].born = Len(routers[routers[r].parent].uses)
    /\ routers[r2].born = Len(routers[routers[r].parent].uses)

\* C27: with two subrouters of one parent, a request for a route registered
\* on one of them runs the parent's stack as it was at the creation, then
\* the wrappers this subrouter had added by Use before the registration,
\* and no wrapper its sibling added.
C27_SiblingIsolation ==
    \A q \in 1..Len(routes), r2 \in 1..Len(routers) :
        LET r == routes[q].router IN
        Siblings(r, r2) =>
            /\ routes[q].outer = routers[r].snap \o SubSeq(routers[r].uses, 1, routes[q].usesAtReg)
            /\ \A j \in 1..Len(routers[r2].uses) : routers[r2].uses[j] \notin Ran(q)

\* C29: when wrappers of the chain of a route respond without calling the
\* next handler, a request runs the chain in its order (the router's
\* wrappers, then the route's, then the handler) up to the first of them and
\* runs nothing after it.
C29_ShortCircuit ==
    servedRoute # 0 =>
        LET q    == routes[servedRoute]
            full == q.outer \o q.inner \o <<0>>
            hits == {i \in 1..Len(full) : full[i] \in lastReq.stopped}
        IN  hits # {} =>
                \E first \in hits :
                    /\ \A i \in hits : first <= i
                    /\ trace = SubSeq(full, 1, first)

C29_Witness ==
    /\ servedRoute # 0
    /\ routes[servedRoute].outer = <<1, 2>>
    /\ routes[servedRoute].inner = <<0 - 1, 0 - 2>>
    /\ lastReq.stopped = {0 - 1}
    /\ trace = <<1, 2, 0 - 1>>

\* C30: a call of Handle that registers leaves every router (stack, prefix)
\* and every backing array as they were and adds one registration to the
\* routes: that of the method at the cleaned join of the router's prefix
\* and the path, in the router's engine, with the route wrappers as they
\* were passed; a call that panics on a method and path already taken
\* changes nothing else.
C30_HandleFrame ==
    [][ /\ routes' # routes =>
              /\ routers' = routers
              /\ heap' = heap
              /\ ~regPanic'
              /\ Len(routes') = Len(routes) + 1
              /\ SubSeq(routes', 1, Len(routes)) = routes
              /\ LET n == routes'[Len(routes')] IN
                    /\ n.engine = routers[n.router].router
                    /\ \E path \in RoutePaths :
                          n.path = CleanPath(JoinPath(routers[n.router].pathPrefix, path))
                    /\ ~Registered(routes, n.engine, n.method, n.path)
                    /\ n.outer = Stack(heap', routers', n.router)
                    /\ n.inner = RouteMiddleware(Len(n.inner))
        /\ (regPanic' /\ ~regPanic) =>
              /\ routes' = routes
              /\ routers' = routers
              /\ heap' = heap
      ]_vars

C30_Witness ==
    /\ Len(routes) = 1
    /\ routes[1].router = 2
    /\ routes[1].method = "POST"
    /\ routes[1].path = <<Slash, "a", Slash, "b">>
    /\ routes[1].inner = <<0 - 1, 0 - 2>>
    /\ routes[1].outer = <<1, 2>>
    /\ Stack(heap, routers, 2) = <<1, 2>>
    /\ routers[2].pathPrefix = <<Slash, "a">>

\* C21: a call of NotFound on any router of the tree leaves every router of
\* the tree with the handler of that call, and a request no route matches,
\* served through any router, is answered by the handler of the most recent
\* call (by http.NotFound when there was no call).
C21_LatestNotFound ==
    [][ /\ NotFoundCalls(routers', Len(routers')) # NotFoundCalls(routers, Len(routers)) =>
            \A r \in 1..Len(routers') :
                notFound'[routers'[r].router] = NotFoundCalls(routers', Len(routers'))
        /\ (lastReq' # lastReq /\ lastReq'.result # "route") =>
            /\ lastReq'.by = NotFoundCalls(routers, Len(routers))
            /\ lastReq'.result = IF lastReq'.by = 0 THEN "http.NotFound" ELSE "NotFound"
      ]_vars

C21_Witness ==
    /\ Len(routers) >= 2
    /\ routers[Root].nfCall = 1
    /\ routers[2].nfCall = 2
    /\ lastReq.result = "NotFound"
    /\ lastReq.by = 2
    /\ lastReq.path = UnroutedPath

\* C37: r.ServeHTTP of any router r of the tree gives the request the
\* outcome the root's ServeHTTP gives it: the route registered for its method
\* and whole path, through whichever router it was registered, else the
\* not-found handler of the tree; the prefix of r plays no part, so every
\* route of the tree is found through every router at its full path.
C37_AnyRouterAsRoot ==
    /\ [][lastReq' # lastReq =>
            LET hits == Lookup(routers[Root].router, lastReq'.method, lastReq'.path)
            IN  IF hits # {}
                THEN /\ lastReq'.result = "route"
                     /\ servedRoute' \in hits
                     /\ trace' = RunHandler(routes[servedRoute'].handler)
                ELSE /\ lastReq'.result # "route"
                     /\ servedRoute' = 0
                     /\ trace' = <<>>
                     /\ lastReq'.by = notFound[routers[Root].router]]_vars
    /\ [](\A r \in 1..Len(routers), q \in 1..Len(routes) :
            q \in Lookup(routers[r].router, routes[q].method,
                         RequestPath(r, routes[q].path)))

\* a route registered on the root, at a path outside the subrouter's prefix,
\* was reached through the subrouter, which has a route of its own
C37_Witness ==
    /\ lastReq.via = 2
    /\ lastReq.result = "route"
    /\ routers[2].pathPrefix = <<Slash, "a", "b", "o", "u", "t">>
    /\ lastReq.path = <<Slash, "b">>
    /\ routes[servedRoute].router = Root
    /\ \E q \in 1..Len(routes) : routes[q].router = 2

(***************************************************************************)
(* runServer.  pc follows the function:                                    *)
(*   "start"    before signal.Notify                                       *)
(*   "spawn"    before the go statement that starts the listener           *)
(*   "select"   waiting on stopServer and ctx.Done()                       *)
(*   "shutdown" drain context and defers set up, before server.Shutdown    *)
(*   "draining" inside server.Shutdown                                     *)
(*   "cleanup"  in the deferred function, at the head of its loop          *)
(*   "callback" inside onShutdownFns[i]                                    *)
(*   "release"  signal.Stop and cancel done, deferred Println pending      *)
(*   "returned" runServer has returned                                     *)
(* and how the process can end instead: "exited" (log.Fatalf), "killed"    *)
(* (a termination signal with no Notify in force), "panicked" (a cleanup   *)
(* callback panicked).  server.Shutdown closes the listeners, then returns *)
(* nil once no request is active, or the context's error once the drain    *)
(* context is done.  A request that is "done" has its whole response; a    *)
(* request "cut" was active when the process ended.                        *)
(***************************************************************************)
Alive == pc \notin {"exited", "killed", "panicked"}

Active == {i \in 1..MaxRequests : requests[i] = "active"}

CutActive == [i \in 1..MaxRequests |-> IF requests[i] = "active" THEN "cut" ELSE requests[i]]

\* log.Fatalf: the process exits at once, no deferred function runs
Fatalf(cause) ==
    /\ pc' = "exited"
    /\ exitCause' = cause
    /\ requests' = CutActive

\* the first trigger, and the requests in flight at it
NoteTrigger ==
    IF triggered THEN UNCHANGED <<triggered, atTrigger>>
    ELSE triggered' = TRUE /\ atTrigger' = Active

\* signal.Notify(stopServer, os.Interrupt, syscall.SIGINT, syscall.SIGTERM)
Notify ==
    /\ pc = "start"
    /\ notified' = TRUE
    /\ pc' = "spawn"
    /\ UNCHANGED <<pathVars, routerVars, reqidVars, respVars>>
    /\ UNCHANGED <<isTLS, listenErr, lnerr>>
    /\ UNCHANGED <<listener, stopServer, signals, hasCtx, ctxDone, inShutdown, requests,
                   elapsed, drainCtx, totalFns, callNo, started, returned, observed,
                   selects, drains, drainEnd, exitCause, triggered, atTrigger>>

\* go func() { ... ListenAndServe ... }()
Spawn ==
    /\ pc = "spawn"
    /\ listener' = "spawned"
    /\ pc' = "select"
    /\ UNCHANGED <<pathVars, routerVars, reqidVars, respVars>>
    /\ UNCHANGED <<isTLS, listenErr, lnerr>>
    /\ UNCHANGED <<notified, stopServer, signals, hasCtx, ctxDone, inShutdown, requests,
                   elapsed, drainCtx, totalFns, callNo, started, returned, observed,
                   selects, drains, drainEnd, exitCause, triggered, atTrigger>>

\* a plausible slip: stopServer is made without a buffer, and the send passes
\* the signal on only when runServer is receiving in the select
Unbuffered(buffer, receiving) == IF receiving THEN 1 ELSE buffer

\* the send of package signal to stopServer, made with a buffer of one: it
\* never blocks, and the buffer holds a signal afterwards
Buffered(buffer, receiving) == 1

\* a termination signal reaches the process: buffered in stopServer (dropped
\* when the buffer is full), or the default action when no Notify is in force
Signal ==
    /\ Alive
    /\ signals < MaxSignals
    /\ signals' = signals + 1
    /\ IF notified
       THEN /\ stopServer' = Buffered(stopServer, pc = "select")
            /\ NoteTrigger
            /\ UNCHANGED <<pc, requests>>
       ELSE /\ pc' = "killed"
            /\ requests' = CutActive
            /\ UNCHANGED <<stopServer, triggered, atTrigger>>
    /\ UNCHANGED <<pathVars, routerVars, reqidVars, respVars>>
    /\ UNCHANGED <<isTLS, listenErr, lnerr>>
    /\ UNCHANGED <<listener, notified, hasCtx, ctxDone, inShutdown, elapsed, drainCtx,
                   totalFns, callNo, started, returned, observed, selects, drains, drainEnd,
                   exitCause>>

\* the caller cancels the context passed to RunWithContext
CtxCancel ==
    /\ Alive
    /\ hasCtx /\ ~ctxDone
    /\ ctxDone' = TRUE
    /\ NoteTrigger
    /\ UNCHANGED <<pathVars, routerVars, reqidVars, respVars>>
    /\ UNCHANGED <<isTLS, listenErr, lnerr>>
    /\ UNCHANGED <<pc, listener, notified, stopServer, signals, hasCtx, inShutdown,
                   requests, elapsed, drainCtx, totalFns, callNo, started, returned,
                   observed, selects, drains, drainEnd, exitCause>>

\* the select returns; the drain context and the two defers are set up
Selected(which) ==
    /\ pc' = "shutdown"
    /\ observed' = which
    /\ selects' = selects + 1
    /\ drainCtx' = "live"
    /\ elapsed' = 0

\* case <-stopServer:
SelectSignal ==
    /\ pc = "select"
    /\ stopServer = 1
    /\ stopServer' = 0
    /\ Selected("signal")
    /\ UNCHANGED <<pathVars, routerVars, reqidVars, respVars>>
    /\ UNCHANGED <<isTLS, listenErr, lnerr>>
    /\ UNCHANGED <<listener, notified, signals, hasCtx, ctxDone, inShutdown, requests,
                   totalFns, callNo, started, returned, drains, drainEnd, exitCause, triggered,
                   atTrigger>>

\* case <-ctx.Done():
SelectCtx ==
    /\ pc = "select"
    /\ ctxDone
    /\ Selected("ctx")
    /\ UNCHANGED <<pathVars, routerVars, reqidVars, respVars>>
    /\ UNCHANGED <<isTLS, listenErr, lnerr>>
    /\ UNCHANGED <<listener, notified, stopServer, signals, hasCtx, ctxDone, inShutdown,
                   requests, totalFns, callNo, started, returned, drains, drainEnd, exitCause,
                   triggered, atTrigger>>

\* a second of the drain window passes
Tick ==
    /\ pc \in {"shutdown", "draining"}
    /\ elapsed < DrainWindow
    /\ elapsed' = elapsed + 1
    /\ UNCHANGED <<pathVars, routerVars, reqidVars, respVars>>
    /\ UNCHANGED <<isTLS, listenErr, lnerr>>
    /\ UNCHANGED <<pc, listener, notified, stopServer, signals, hasCtx, ctxDone,
                   inShutdown, requests, drainCtx, totalFns, callNo, started, returned,
                   observed, selects, drains, drainEnd, exitCause, triggered, atTrigger>>

\* server.Shutdown(ctx) is entered: the listeners are closed, and closing one
\* may give an error, which Shutdown returns once the connections are idle
ShutdownBegin ==
    /\ pc = "shutdown"
    /\ pc' = "draining"
    /\ inShutdown' = TRUE
    /\ drains' = drains + 1
    /\ lnerr' \in (IF listener = "serving" THEN {"nil", "close"} ELSE {"nil"})
    /\ UNCHANGED drainEnd
    /\ UNCHANGED <<pathVars, routerVars, reqidVars, respVars>>
    /\ UNCHANGED <<isTLS, listenErr>>
    /\ UNCHANGED <<listener, notified, stopServer, signals, hasCtx, ctxDone, requests,
                   elapsed, drainCtx, totalFns, callNo, started, returned, observed,
                   selects, exitCause, triggered, atTrigger>>

\* a plausible slip: the server is closed without waiting for the requests
NeverWaits(active) == TRUE

\* server.Shutdown's test that every connection is idle
Idle(active) == active = {}

\* a plausible slip: the error of server.Shutdown is dropped
ShutdownErrIgnored(err) == FALSE

\* if err := server.Shutdown(ctx); err != nil
ShutdownFatal(err) == err # "nil"

\* runServer once server.Shutdown has returned err: log.Fatalf, or the end
\* of the function, where the deferred function starts
AfterShutdown(err) ==
    IF ShutdownFatal(err)
    THEN /\ Fatalf("shutdown")
         /\ UNCHANGED callNo
    ELSE /\ pc' = "cleanup"
         /\ callNo' = 1
         /\ UNCHANGED <<exitCause, requests>>

\* server.Shutdown returns with every connection idle: nil, or the error
\* closing the listeners gave
ShutdownReturns ==
    /\ pc = "draining"
    /\ Idle(Active)
    /\ AfterShutdown(lnerr)
    /\ drainEnd' = "idle"
    /\ UNCHANGED <<pathVars, routerVars, reqidVars, respVars>>
    /\ UNCHANGED <<isTLS, listenErr, lnerr>>
    /\ UNCHANGED <<listener, notified, stopServer, signals, hasCtx, ctxDone, inShutdown,
                   elapsed, drainCtx, totalFns, started, returned, observed,
                   selects, drains, triggered, atTrigger>>

\* a plausible slip: the drain context is derived from the caller's context
CallerParent(callerDone) == callerDone

\* the parent of the drain context is context.Background(), never done
DrainParent(callerDone) == FALSE

\* a plausible slip: the drain context has no deadline
NeverDone(callerDone, seconds) == FALSE

\* context.WithTimeout(parent, 5*time.Second) is done once its parent is done
\* or the five seconds have passed
DrainDone(callerDone, seconds) == DrainParent(callerDone) \/ seconds = DrainWindow

\* server.Shutdown returns the error of the drain context
ShutdownDeadline ==
    /\ pc = "draining"
    /\ ~Idle(Active)
    /\ DrainDone(ctxDone, elapsed)
    /\ AfterShutdown("DeadlineExceeded")
    /\ drainEnd' = "deadline"
    /\ UNCHANGED <<pathVars, routerVars, reqidVars, respVars>>
    /\ UNCHANGED <<isTLS, listenErr, lnerr>>
    /\ UNCHANGED <<listener, notified, stopServer, signals, hasCtx, ctxDone, inShutdown,
                   elapsed, drainCtx, totalFns, started, returned, observed,
                   selects, drains, triggered, atTrigger>>

\* the callback the k-th iteration calls: i = totalFns - k, 0-based
\* a plausible slip: the loop runs in registration order
CallbackForward(n, k) == k

CallbackAt(n, k) == n + 1 - k

\* onShutdownFns[i]() is called
CallbackStart ==
    /\ pc = "cleanup"
    /\ callNo <= totalFns
    /\ pc' = "callback"
    /\ started' = Append(started, CallbackAt(totalFns, callNo))
    /\ UNCHANGED <<pathVars, routerVars, reqidVars, respVars>>
    /\ UNCHANGED <<isTLS, listenErr, lnerr>>
    /\ UNCHANGED <<listener, notified, stopServer, signals, hasCtx, ctxDone, inShutdown,
                   requests, elapsed, drainCtx, totalFns, callNo, returned, observed,
                   selects, drains, drainEnd, exitCause, triggered, atTrigger>>

\* onShutdownFns[i]() returns; i, j = i-1, j+1
CallbackReturn ==
    /\ pc = "callback"
    /\ pc' = "cleanup"
    /\ returned' = Append(returned, CallbackAt(totalFns, callNo))
    /\ callNo' = callNo + 1
    /\ UNCHANGED <<pathVars, routerVars, reqidVars, respVars>>
    /\ UNCHANGED <<isTLS, listenErr, lnerr>>
    /\ UNCHANGED <<listener, notified, stopServer, signals, hasCtx, ctxDone, inShutdown,
                   requests, elapsed, drainCtx, totalFns, started, observed, selects,
                   drains, drainEnd, exitCause, triggered, atTrigger>>

\* a plausible slip: the deferred function recovers and goes on with the loop
PanicRecovered(at) == "cleanup"

\* nothing recovers a panic of onShutdownFns[i](): it leaves the loop, the
\* deferred function and runServer
PanicLeaves(at) == "panicked"

\* onShutdownFns[i]() panics: the panic leaves the deferred function
CallbackPanic ==
    /\ pc = "callback"
    /\ pc' = PanicLeaves(pc)
    /\ UNCHANGED <<pathVars, routerVars, reqidVars, respVars>>
    /\ UNCHANGED <<isTLS, listenErr, lnerr>>
    /\ UNCHANGED <<listener, notified, stopServer, signals, hasCtx, ctxDone, inShutdown,
                   requests, elapsed, drainCtx, totalFns, callNo, started, returned,
                   observed, selects, drains, drainEnd, exitCause, triggered, atTrigger>>

\* a plausible slip: the select sits in a loop and is entered again
BackToSelect(pending) == IF pending THEN "select" ELSE "release"

\* where runServer goes after the cleanup loop
AfterCleanup(pending) == "release"

\* the loop is over: signal.Stop(stopServer); cancel()
Release ==
    /\ pc = "cleanup"
    /\ callNo > totalFns
    /\ pc' = AfterCleanup(stopServer = 1 \/ ctxDone)
    /\ notified' = (pc' # "release")
    /\ drainCtx' = "cancelled"
    /\ UNCHANGED <<pathVars, routerVars, reqidVars, respVars>>
    /\ UNCHANGED <<isTLS, listenErr, lnerr>>
    /\ UNCHANGED <<listener, stopServer, signals, hasCtx, ctxDone, inShutdown, requests,
                   elapsed, totalFns, callNo, started, returned, observed, selects,
                   drains, drainEnd, exitCause, triggered, atTrigger>>

\* the deferred Println runs and runServer returns
Return ==
    /\ pc = "release"
    /\ pc' = "returned"
    /\ UNCHANGED <<pathVars, routerVars, reqidVars, respVars>>
    /\ UNCHANGED <<isTLS, listenErr, lnerr>>
    /\ UNCHANGED <<listener, notified, stopServer, signals, hasCtx, ctxDone, inShutdown,
                   requests, elapsed, drainCtx, totalFns, callNo, started, returned,
                   observed, selects, drains, drainEnd, exitCause, triggered, atTrigger>>

\* ListenAndServe binds the address and serves
Listen ==
    /\ Alive
    /\ listener = "spawned"
    /\ ~inShutdown
    /\ listener' = "serving"
    /\ UNCHANGED <<pathVars, routerVars, reqidVars, respVars>>
    /\ UNCHANGED <<isTLS, listenErr, lnerr>>
    /\ UNCHANGED <<pc, notified, stopServer, signals, hasCtx, ctxDone, inShutdown,
                   requests, elapsed, drainCtx, totalFns, callNo, started, returned,
                   observed, selects, drains, drainEnd, exitCause, triggered, atTrigger>>

\* the errors ListenAndServe / ListenAndServeTLS return other than
\* http.ErrServerClosed: the address cannot be bound, the certificate or key
\* cannot be loaded (TLS only), Accept fails
BindErrors(tls) == {"bind"} \cup (IF tls THEN {"certificate"} ELSE {})

ServeErrors == {"accept"}

\* a plausible slip: every error is fatal
AnyErrFatal(err) == err # "nil"

\* err != nil && err != http.ErrServerClosed
ListenFatal(err) == err # "nil" /\ err # "ErrServerClosed"

\* the listener goroutine once ListenAndServe(TLS) has returned err
ListenReturns(err) ==
    /\ listenErr' = err
    /\ IF ListenFatal(err)
       THEN /\ listener' = "failed"
            /\ Fatalf("listen")
       ELSE /\ listener' = "closed"
            /\ UNCHANGED <<pc, exitCause, requests>>

\* ListenAndServe(TLS) returns http.ErrServerClosed: the goroutine ends quietly
ListenClosed ==
    /\ Alive
    /\ listener \in {"spawned", "serving"}
    /\ inShutdown
    /\ ListenReturns("ErrServerClosed")
    /\ UNCHANGED <<pathVars, routerVars, reqidVars, respVars>>
    /\ UNCHANGED <<isTLS, lnerr>>
    /\ UNCHANGED <<notified, stopServer, signals, hasCtx, ctxDone, inShutdown, elapsed,
                   drainCtx, totalFns, callNo, started, returned, observed, selects,
                   drains, drainEnd, triggered, atTrigger>>

\* ListenAndServe(TLS) returns another error
ListenFail ==
    /\ Alive
    /\ \E err \in BindErrors(isTLS) \cup ServeErrors :
            /\ \/ err \in BindErrors(isTLS) /\ listener = "spawned"
               \/ err \in ServeErrors /\ listener = "serving" /\ ~inShutdown
            /\ ListenReturns(err)
    /\ UNCHANGED <<pathVars, routerVars, reqidVars, respVars>>
    /\ UNCHANGED <<isTLS, lnerr>>
    /\ UNCHANGED <<notified, stopServer, signals, hasCtx, ctxDone, inShutdown, elapsed,
                   drainCtx, totalFns, callNo, started, returned, observed, selects,
                   drains, drainEnd, triggered, atTrigger>>

\* a plausible slip: the listeners stay open during the shutdown
StillAccepting(shuttingDown) == TRUE

\* the listeners accept until server.Shutdown has closed them
Accepting(shuttingDown) == ~shuttingDown

\* the listener accepts a connection and its request starts
Accept(i) ==
    /\ Alive
    /\ listener = "serving"
    /\ Accepting(inShutdown)
    /\ requests[i] = "none"
    /\ requests' = [requests EXCEPT ![i] = "active"]
    /\ UNCHANGED <<pathVars, routerVars, reqidVars, respVars>>
    /\ UNCHANGED <<isTLS, listenErr, lnerr>>
    /\ UNCHANGED <<pc, listener, notified, stopServer, signals, hasCtx, ctxDone,
                   inShutdown, elapsed, drainCtx, totalFns, callNo, started, returned,
                   observed, selects, drains, drainEnd, exitCause, triggered, atTrigger>>

\* the request's handler returns and its response is complete
Complete(i) ==
    /\ Alive
    /\ requests[i] = "active"
    /\ requests' = [requests EXCEPT ![i] = "done"]
    /\ UNCHANGED <<pathVars, routerVars, reqidVars, respVars>>
    /\ UNCHANGED <<isTLS, listenErr, lnerr>>
    /\ UNCHANGED <<pc, listener, notified, stopServer, signals, hasCtx, ctxDone,
                   inShutdown, elapsed, drainCtx, totalFns, callNo, started, returned,
                   observed, selects, drains, drainEnd, exitCause, triggered, atTrigger>>

\* Run / RunTLS pass context.TODO(); RunWithContext a context of the caller
InitServer ==
    /\ pc = "start"
    /\ listener = "none"
    /\ notified = FALSE
    /\ stopServer = 0
    /\ signals = 0
    /\ hasCtx \in BOOLEAN
    /\ ctxDone = FALSE
    /\ inShutdown = FALSE
    /\ requests = [i \in 1..MaxRequests |-> "none"]
    /\ elapsed = 0
    /\ drainCtx = "none"
    /\ totalFns \in 0..MaxCallbacks
    /\ callNo = 1
    /\ started = <<>>
    /\ returned = <<>>
    /\ observed = "none"
    /\ selects = 0
    /\ drains = 0
    /\ drainEnd = "none"
    /\ exitCause = "none"
    /\ triggered = FALSE
    /\ atTrigger = {}
    /\ listenErr = "none"
    /\ lnerr = "nil"
    /\ isTLS \in BOOLEAN
    /\ InitPathVars
    /\ InitRouterVars
    /\ InitReqidVars
    /\ InitRespVars

NextServer ==
    \/ Notify \/ Spawn \/ Signal \/ CtxCancel \/ SelectSignal \/ SelectCtx
    \/ Tick \/ ShutdownBegin \/ ShutdownReturns \/ ShutdownDeadline
    \/ CallbackStart \/ CallbackReturn \/ CallbackPanic \/ Release \/ Return
    \/ Listen \/ ListenClosed \/ ListenFail
    \/ \E i \in 1..MaxRequests : Accept(i)
    \/ \E i \in 1..MaxRequests : Complete(i)

SpecServer == InitServer /\ [][NextServer]_vars

\* the steps of the goroutine that runs runServer, a cleanup callback that
\* panics apart
runServer ==
    \/ Notify \/ Spawn \/ SelectSignal \/ SelectCtx
    \/ ShutdownBegin \/ ShutdownReturns \/ ShutdownDeadline
    \/ CallbackStart \/ CallbackReturn \/ Release \/ Return

\* runServer as scheduled: its goroutine takes a step it can take, a cleanup
\* callback that does not panic returns, and the timer of the drain context
\* runs.  Nothing is assumed of the signals, the caller's context, the
\* listener goroutine or the requests.
SpecServerFair ==
    /\ InitServer
    /\ [][NextServer]_vars
    /\ WF_vars(runServer)
    /\ WF_vars(Tick)

(***************************************************************************)
(* Properties of runServer.                                                *)
(***************************************************************************)
ReverseOrder(n) == [k \in 1..n |-> n + 1 - k]

IsPrefix(s, t) == Len(s) <= Len(t) /\ SubSeq(t, 1, Len(s)) = s

\* the shutdown a trigger started is over: runServer returned, or the process
\* exited on the error server.Shutdown returned
ShutdownOver ==
    /\ observed # "none"
    /\ pc = "returned" \/ (pc = "exited" /\ exitCause = "shutdown")

\* C4: on a shutdown a trigger started the cleanup callbacks are called in
\* reverse registration order, one after the other, and once the shutdown is
\* over each has run exactly once; all have returned when runServer returns.
C4_CleanupOnShutdown ==
    /\ IsPrefix(started, ReverseOrder(totalFns))
    /\ IsPrefix(returned, started)
    /\ ShutdownOver => \A i \in 1..totalFns : Count(returned, i) = 1
    /\ pc = "returned" => returned = ReverseOrder(totalFns)

\* C5: however server.Shutdown ends (no request left in flight, or the drain
\* window over with requests in flight), every cleanup callback then runs,
\* in reverse registration order, and signal watching is released only after
\* them.
C5_CleanupAfterDrain ==
    /\ (drainEnd = "idle" /\ pc \in {"release", "returned"})
            => returned = ReverseOrder(totalFns)
    /\ (drainEnd = "deadline" /\ pc \in {"release", "returned", "exited"})
            => returned = ReverseOrder(totalFns)
    /\ (observed # "none" /\ ~notified) => returned = ReverseOrder(totalFns)

\* C6: shutdown begins only when the select has observed a signal or the
\* cancelled context; the select returns once and server.Shutdown is called
\* once, no callback is called twice, and runServer returns with the same
\* cleanup done whichever trigger was observed and whatever arrived later.
C6_OneShutdown ==
    /\ selects <= 1
    /\ drains <= 1
    /\ \A i \in 1..totalFns : Count(started, i) <= 1
    /\ (observed = "none" =>
            /\ pc \in {"start", "spawn", "select", "exited", "killed"}
            /\ selects = 0 /\ drains = 0 /\ started = <<>>)
    /\ (observed = "signal" => signals >= 1)
    /\ (observed = "ctx" => ctxDone)
    /\ (pc = "returned" =>
            /\ observed \in {"signal", "ctx"}
            /\ selects = 1 /\ drains = 1
            /\ returned = ReverseOrder(totalFns))

\* the context was observed, a signal arrived afterwards and stays buffered
C6_Witness ==
    /\ pc = "returned"
    /\ observed = "ctx"
    /\ stopServer = 1
    /\ totalFns = 2
    /\ returned = <<2, 1>>

\* C10: while a request is in flight no cleanup callback has been called and
\* runServer is still before or inside server.Shutdown; the drain cuts a
\* request only by the fatal exit at the end of the drain window, so a
\* request that completes within the window has its whole response first.
C10_DrainWaits ==
    \A i \in 1..MaxRequests :
        /\ requests[i] = "active" =>
                /\ started = <<>>
                /\ pc \in {"select", "shutdown", "draining"}
        /\ (requests[i] = "cut" /\ exitCause = "shutdown") => elapsed = DrainWindow
        /\ requests[i] = "cut" => pc \in {"exited", "killed"}

\* a request in flight at the trigger completed during the drain window,
\* then the callbacks ran
C10_Witness ==
    /\ pc = "returned"
    /\ 1 \in atTrigger
    /\ requests[1] = "done"
    /\ elapsed >= 1
    /\ totalFns = 2
    /\ returned = <<2, 1>>

\* C11: the process exits on the listener's error exactly when that error is
\* not http.ErrServerClosed: after ErrServerClosed, which only a shutdown
\* produces, the goroutine has ended quietly and runServer still drains and
\* runs the cleanup; after any other error (bind, certificate, accept; TLS
\* or not) the process has exited through log.Fatalf.
C11_ListenerErrors ==
    /\ listenErr = "ErrServerClosed" =>
            /\ inShutdown
            /\ listener = "closed"
            /\ exitCause # "listen"
            /\ pc = "returned" => returned = ReverseOrder(totalFns)
    /\ listenErr \notin {"none", "ErrServerClosed"} =>
            /\ listener = "failed"
            /\ pc = "exited"
            /\ exitCause = "listen"
    /\ exitCause = "listen" => listenErr \notin {"none", "nil", "ErrServerClosed"}

\* ListenAndServeTLS returned ErrServerClosed during the shutdown, and
\* runServer went on to drain, run both callbacks and return
C11_Witness ==
    /\ isTLS
    /\ listenErr = "ErrServerClosed"
    /\ pc = "returned"
    /\ requests[1] = "done"
    /\ totalFns = 2
    /\ returned = <<2, 1>>

\* the error server.Shutdown returned, "none" while it has not returned
ShutdownErr ==
    IF drainEnd = "deadline" THEN "DeadlineExceeded"
    ELSE IF drainEnd = "idle" THEN lnerr
    ELSE "none"

\* C12: once server.Shutdown has returned an error the process has exited
\* through log.Fatalf, with no cleanup callback called; runServer passes
\* server.Shutdown only when it returned nil.
C12_ShutdownErrorFatal ==
    /\ ShutdownErr \notin {"none", "nil"} =>
            /\ pc = "exited"
            /\ exitCause = "shutdown"
            /\ started = <<>>
    /\ pc \in {"cleanup", "callback", "release", "returned", "panicked"} =>
            ShutdownErr = "nil"
    /\ exitCause = "shutdown" => ShutdownErr \notin {"none", "nil"}

\* the drain window ended with a request in flight: Shutdown returned
\* context.DeadlineExceeded and the process exited
C12_Witness ==
    /\ pc = "exited"
    /\ exitCause = "shutdown"
    /\ drainEnd = "deadline"
    /\ requests[1] = "cut"
    /\ totalFns = 2

\* the lifecycle state of the spec read off runServer and its listener:
\* Running once the listener accepts connections, Draining once the select
\* has returned, Stopped once runServer has returned
Lifecycle ==
    IF ~Alive THEN "Aborted"
    ELSE IF pc = "returned" THEN "Stopped"
    ELSE IF pc \in {"shutdown", "draining", "cleanup", "callback", "release"} THEN "Draining"
    ELSE IF listener = "serving" THEN "Running"
    ELSE "Starting"

\* C13 as stated: the lifecycle state changes only from Starting to Running,
\* from Running to Draining after a trigger, and from Draining to Stopped
\* (or the process ends abnormally).
C13_LifecycleForward ==
    [][Lifecycle' # Lifecycle =>
        \/ Lifecycle' = "Aborted"
        \/ Lifecycle = "Starting" /\ Lifecycle' = "Running"
        \/ Lifecycle = "Running" /\ Lifecycle' = "Draining" /\ triggered
        \/ Lifecycle = "Draining" /\ Lifecycle' = "Stopped"]_vars

\* C13 amended: as C13, and Draining is also entered from Starting, when the
\* trigger is observed before the listener accepts connections.
C13_LifecycleForwardOrEarly ==
    [][Lifecycle' # Lifecycle =>
        \/ Lifecycle' = "Aborted"
        \/ Lifecycle = "Starting" /\ Lifecycle' = "Running"
        \/ Lifecycle \in {"Starting", "Running"} /\ Lifecycle' = "Draining" /\ triggered
        \/ Lifecycle = "Draining" /\ Lifecycle' = "Stopped"]_vars

\* Stopped after the listener served two requests and a signal was observed
C13_Witness ==
    /\ Lifecycle = "Stopped"
    /\ observed = "signal"
    /\ requests = [i \in 1..MaxRequests |-> "done"]
    /\ listener = "closed"

\* C14 as stated: once a trigger has occurred no request of a new connection
\* starts.
C14_NoAcceptAfterTrigger ==
    [][\A i \in 1..MaxRequests :
            (triggered /\ requests[i] = "none") => requests'[i] = "none"]_vars

\* C14 amended: once server.Shutdown, called after the trigger was observed,
\* has closed the listeners no request of a new connection starts.
C14_NoAcceptAfterShutdown ==
    [][\A i \in 1..MaxRequests :
            (inShutdown /\ requests[i] = "none") => requests'[i] = "none"]_vars

\* server.Shutdown is waiting for a request, the listener goroutine has not
\* yet returned, and a second request could still arrive
C14_Witness ==
    /\ pc = "draining"
    /\ inShutdown
    /\ listener = "serving"
    /\ requests[1] = "active"
    /\ requests[2] = "none"
    /\ elapsed >= 1

\* C28: at most one cleanup callback is running at a time; a callback is
\* called only when none is running and every callback registered after it
\* has returned; while one is running no other is called and runServer
\* neither leaves the loop nor returns.
C28_NoOverlap ==
    [][ /\ Len(started) - Len(returned) \in {0, 1}
        /\ started' # started =>
              /\ returned = started
              /\ \E i \in 1..totalFns :
                    /\ started' = Append(started, i)
                    /\ Count(started, i) = 0
                    /\ \A k \in (i + 1)..totalFns : Count(returned, k) = 1
        /\ Len(started) > Len(returned) =>
              /\ started' = started
              /\ pc' \notin {"release", "returned"}
        /\ pc' = "returned" => returned' = started'
      ]_vars

C28_Witness ==
    /\ totalFns = 2
    /\ pc = "callback"
    /\ started = <<2, 1>>
    /\ returned = <<2>>

\* C31: the drain deadline comes from a fresh background context, not from
\* the caller's: server.Shutdown gives up with requests in flight only when
\* the whole drain window has passed, also when the cancelled context of the
\* caller started the shutdown, so a request in flight is never cut before.
C31_FullDrainWindow ==
    /\ drainEnd = "deadline" => elapsed = DrainWindow
    /\ \A i \in 1..MaxRequests :
            (observed = "ctx" /\ exitCause = "shutdown" /\ requests[i] = "cut") =>
                /\ ctxDone
                /\ elapsed = DrainWindow
                /\ drainEnd = "deadline"

\* the cancelled context started the shutdown, a request in flight then
\* completed two seconds into the window and runServer returned
C31_Witness ==
    /\ observed = "ctx"
    /\ ctxDone
    /\ 1 \in atTrigger
    /\ requests[1] = "done"
    /\ elapsed = 2
    /\ drainEnd = "idle"
    /\ pc = "returned"

\* the process is over: log.Fatalf, the default action of a signal that no
\* Notify catches, or a panic that left runServer
Ended == pc \in {"exited", "killed", "panicked"}

\* C33: once a trigger has fired, or runServer is draining, runServer
\* eventually returns or the process ends (log.Fatalf; a panic only when a
\* callback does not return), also when a request in flight never completes:
\* the drain never lasts forever.
C33_DrainEnds ==
    (triggered \/ Lifecycle = "Draining") ~> (pc = "returned" \/ Ended)

\* both requests never completed: the drain stopped at the deadline and the
\* process exited
C33_Witness ==
    /\ triggered
    /\ observed = "signal"
    /\ pc = "exited"
    /\ exitCause = "shutdown"
    /\ elapsed = DrainWindow
    /\ requests = [i \in 1..MaxRequests |-> "cut"]

\* server.Shutdown was called before the listener served: no listener was
\* there to close, and no request was ever accepted
EarlyShutdown ==
    /\ inShutdown
    /\ listener \in {"spawned", "closed"}
    /\ lnerr = "nil"
    /\ requests = [i \in 1..MaxRequests |-> "none"]

\* C32: a signal that arrives once signal.Notify is in force is kept in
\* stopServer, whatever runServer and the listener goroutine have reached,
\* and only the select takes it out, which starts the shutdown; runServer
\* then gets to server.Shutdown (or the process has ended before).  When
\* that is before the listener served, the listener goroutine ends quietly
\* on http.ErrServerClosed, server.Shutdown does not fail, and runServer
\* returns with every cleanup callback run.
C32_SignalNotLost ==
    /\ [][(notified /\ signals' > signals) => stopServer' = 1]_vars
    /\ [][(stopServer = 1 /\ stopServer' = 0) =>
                (pc = "select" /\ pc' = "shutdown" /\ observed' = "signal")]_vars
    /\ (stopServer = 1 /\ pc \in {"spawn", "select"}) ~> (inShutdown \/ Ended)
    /\ [][(inShutdown /\ listener = "spawned" /\ listener' = "closed") =>
                (listenErr' = "ErrServerClosed" /\ pc' = pc /\ exitCause' = exitCause)]_vars
    /\ [](EarlyShutdown =>
                /\ exitCause # "shutdown"
                /\ pc \in {"release", "returned"} => returned = ReverseOrder(totalFns))
    /\ (inShutdown /\ listener = "spawned") ~>
                ((pc = "returned" /\ returned = ReverseOrder(totalFns)) \/ Ended)

\* the one signal was observed, the listener goroutine found the server shut
\* down and accepted nothing, and both callbacks ran
C32_Witness ==
    /\ signals = 1
    /\ observed = "signal"
    /\ ~ctxDone
    /\ EarlyShutdown
    /\ listenErr = "ErrServerClosed"
    /\ pc = "returned"
    /\ totalFns = 2
    /\ returned = <<2, 1>>

\* C34: a cleanup callback that does not return has panicked, and the panic
\* leaves runServer: the callbacks registered before it are never called,
\* signal.Stop and cancel are never called, and runServer does not return.
C34_PanicPropagates ==
    /\ [][(pc = "callback" /\ pc' # "callback" /\ returned' = returned) =>
                pc' \in {"panicked", "exited"}]_vars
    /\ [](pc = "panicked" =>
                /\ started # <<>>
                /\ returned = SubSeq(started, 1, Len(started) - 1)
                /\ \A i \in 1..totalFns :
                        i < started[Len(started)] => Count(started, i) = 0
                /\ notified
                /\ drainCtx = "live")
    /\ [][pc = "panicked" =>
                /\ pc' = "panicked"
                /\ started' = started /\ returned' = returned
                /\ notified' = notified /\ drainCtx' = drainCtx]_vars

\* the callback registered last panicked: the other is never called, and
\* signal watching and the drain context are as they were
C34_Witness ==
    /\ pc = "panicked"
    /\ totalFns = 2
    /\ started = <<2>>
    /\ returned = <<>>
    /\ notified
    /\ drainCtx = "live"

(***************************************************************************)
(* The request-ID middleware.  A request carries its headers under their   *)
(* canonical keys; Header.Get canonicalizes the key it is asked for and    *)
(* returns "" for a header that is absent.  Each request passes through    *)
(* one middleware: RequestID (headerKey is defaultRequestIDHeader) or the  *)
(* handler RequestIDFromCustomHeader(headerKey) returns.  Its steps:       *)
(*   "none"   not arrived                                                  *)
(*   "start"  the wrapper's handler is entered                             *)
(*   "mint"   Header.Get returned "": atomic.AddUint64 is next             *)
(*   "ready"  requestID is set: context.WithValue and next.ServeHTTP next  *)
(*   "served" the next handler has read the identifier from its context    *)
(***************************************************************************)
defaultRequestIDHeader == "X-Request-ID"

CustomHeaderKeys == {"X-Trace-Id"}

\* textproto.CanonicalMIMEHeaderKey on the keys of the model
CanonicalKey(k) == IF k = "X-Request-ID" THEN "X-Request-Id" ELSE k

CanonicalKeys == {CanonicalKey(k) : k \in {defaultRequestIDHeader} \cup CustomHeaderKeys}

HeaderValues == {<<>>, <<"u", "p">>}

HeaderGet(header, key) == header[CanonicalKey(key)]

Modulus == 2 ^ CounterBits

\* a plausible slip: the counter is read, not incremented
LoadUint64(counter, delta) == counter

\* a plausible slip: the counter stops at its largest value
AddSaturating(counter, delta) ==
    IF counter + delta >= Modulus THEN Modulus - 1 ELSE counter + delta

\* atomic.AddUint64(&reqid, 1): the new value, stored and returned in one step
AddUint64(counter, delta) == (counter + delta) % Modulus

DigitChars == <<"0", "1", "2", "3", "4", "5", "6", "7", "8", "9">>

RECURSIVE Decimal(_)
Decimal(n) ==
    IF n < 10 THEN <<DigitChars[n + 1]>>
    ELSE Decimal(n \div 10) \o <<DigitChars[(n % 10) + 1]>>

RECURSIVE ZeroPad(_, _)
ZeroPad(digits, width) ==
    IF Len(digits) >= width THEN digits ELSE ZeroPad(<<"0">> \o digits, width)

\* a plausible slip: the verb is %d
SprintfUnpadded(pre, myid) == pre \o <<"-">> \o Decimal(myid)

\* fmt.Sprintf("%s-%06d", prefix, myid)
Sprintf(pre, myid) == pre \o <<"-">> \o ZeroPad(Decimal(myid), IDWidth)

(***************************************************************************)
(* Contexts.  A context is the sequence of the layers derived from         *)
(* context.Background(), the newest last; a value carries its dynamic      *)
(* type.  The nil Context is the one-layer sequence NilContext.            *)
(***************************************************************************)
NoValue == [type |-> "nil", v |-> <<>>]

StringValue(str) == [type |-> "string", v |-> str]

BytesValue(str) == [type |-> "[]byte", v |-> str]

Background == <<>>

NilContext == <<[kind |-> "nil", key |-> "", val |-> NoValue]>>

\* context.WithValue(ctx, key, value)
WithValue(ctx, key, value) == Append(ctx, [kind |-> "value", key |-> key, val |-> value])

\* context.WithTimeout(ctx, d): a child with a deadline and the parent's values
WithTimeout(ctx) == Append(ctx, [kind |-> "timeout", key |-> "", val |-> NoValue])

\* ctx.Value(key): the value of the newest layer that holds key, else nil
RECURSIVE Value(_, _)
Value(ctx, key) ==
    IF ctx = <<>> THEN NoValue
    ELSE LET top == ctx[Len(ctx)]
         IN  IF top.kind = "value" /\ top.key = key THEN top.val
             ELSE Value(SubSeq(ctx, 1, Len(ctx) - 1), key)

\* a plausible slip: the value is returned whatever its type
AnyValue(x) == x.v

\* requestID, ok := x.(string): the string, or "" when x is not a string
StringOrEmpty(x) == IF x.type = "string" THEN x.v ELSE <<>>

\* GetRequestID
GetRequestID(ctx) ==
    IF ctx = NilContext THEN <<>> ELSE StringOrEmpty(Value(ctx, "requestID"))

\* a request reaches the middleware; reqCtx is req.Context(), as the server
\* and the wrappers before the middleware made it
Arrive(i, key, header, reqCtx) ==
    /\ calls[i].st = "none"
    /\ calls' = [calls EXCEPT ![i].st = "start", ![i].headerKey = key,
                              ![i].header = header, ![i].reqCtx = reqCtx]
    /\ UNCHANGED <<prefix, reqid, mintOrder, probe>>
    /\ UNCHANGED <<pathVars, routerVars, serverVars, respVars>>

\* a plausible slip: an identifier is minted for every request
AlwaysEmpty(requestID) == TRUE

\* if requestID == ""
IsEmpty(requestID) == requestID = <<>>

\* requestID := req.Header.Get(headerKey); if requestID == ""
GetHeader(i) ==
    /\ calls[i].st = "start"
    /\ LET requestID == HeaderGet(calls[i].header, calls[i].headerKey)
       IN  calls' = [calls EXCEPT ![i].requestID = requestID,
                                  ![i].st = IF IsEmpty(requestID) THEN "mint" ELSE "ready"]
    /\ UNCHANGED <<prefix, reqid, mintOrder, probe>>
    /\ UNCHANGED <<pathVars, routerVars, serverVars, respVars>>

\* the identifiers minted in one behaviour: enough to pass the wrap of the
\* counter
MaxMints == Modulus + 2

\* myid := atomic.AddUint64(&reqid, 1); requestID = fmt.Sprintf(...)
Mint(i) ==
    /\ calls[i].st = "mint"
    /\ Len(mintOrder) < MaxMints
    /\ LET myid == AddUint64(reqid, 1)
       IN  /\ reqid' = myid
           /\ mintOrder' = Append(mintOrder, myid)
           /\ calls' = [calls EXCEPT ![i].myid = myid,
                                     ![i].requestID = Sprintf(prefix, myid),
                                     ![i].st = "ready"]
    /\ UNCHANGED <<prefix, probe>>
    /\ UNCHANGED <<pathVars, routerVars, serverVars, respVars>>

\* ctx := context.WithValue(req.Context(), "requestID", requestID);
\* next.ServeHTTP(w, req.WithContext(ctx)), where the handler reads the value
ServeNext(i) ==
    /\ calls[i].st = "ready"
    /\ LET ctx == WithValue(calls[i].reqCtx, "requestID", StringValue(calls[i].requestID))
       IN  calls' = [calls EXCEPT ![i].ctx = ctx,
                                  ![i].seen = GetRequestID(ctx),
                                  ![i].st = "served"]
    /\ UNCHANGED <<prefix, reqid, mintOrder, probe>>
    /\ UNCHANGED <<pathVars, routerVars, serverVars, respVars>>

\* init(): prefix = hostname + "/" + ten random characters
Prefixes == {<<"h", "/", "r">>, <<"a", "-", "1", "/", "Z">>}

InitReqID ==
    /\ prefix \in Prefixes
    /\ reqid = 0
    /\ calls = [i \in 1..MaxCalls |->
                    [st |-> "none", headerKey |-> "", header |-> <<>>, requestID |-> <<>>,
                     myid |-> 0, reqCtx |-> <<>>, ctx |-> <<>>, seen |-> <<>>,
                     seenBy |-> <<>>]]
    /\ mintOrder = <<>>
    /\ probe = [ctx |-> <<>>, out |-> <<>>, done |-> FALSE]
    /\ InitPathVars
    /\ InitRouterVars
    /\ InitServerVars
    /\ InitRespVars

NextReqID ==
    \/ \E i \in 1..MaxCalls, key \in {defaultRequestIDHeader} \cup CustomHeaderKeys,
          header \in [CanonicalKeys -> HeaderValues] : Arrive(i, key, header, Background)
    \/ \E i \in 1..MaxCalls : GetHeader(i)
    \/ \E i \in 1..MaxCalls : Mint(i)
    \/ \E i \in 1..MaxCalls : ServeNext(i)

SpecReqID == InitReqID /\ [][NextReqID]_vars

(***************************************************************************)
(* SpecCounter: requests come and go through both middlewares, at most     *)
(* MaxInFlight at a time, until the counter has wrapped.                   *)
(***************************************************************************)
\* the middleware's handler returns: the request is over
Leave(i) ==
    /\ calls[i].st = "served"
    /\ calls' = [calls EXCEPT ![i] =
                    [st |-> "none", headerKey |-> "", header |-> <<>>, requestID |-> <<>>,
                     myid |-> 0, reqCtx |-> <<>>, ctx |-> <<>>, seen |-> <<>>,
                     seenBy |-> <<>>]]
    /\ UNCHANGED <<prefix, reqid, mintOrder, probe>>
    /\ UNCHANGED <<pathVars, routerVars, serverVars, respVars>>

\* the request has no header of the model, or both with the same value
CounterHeaders == {[k \in CanonicalKeys |-> v] : v \in HeaderValues}

NextCounter ==
    \/ \E i \in 1..MaxInFlight, key \in {defaultRequestIDHeader} \cup CustomHeaderKeys,
          header \in CounterHeaders : Arrive(i, key, header, Background)
    \/ \E i \in 1..MaxInFlight : GetHeader(i)
    \/ \E i \in 1..MaxInFlight : Mint(i)
    \/ \E i \in 1..MaxInFlight : ServeNext(i)
    \/ \E i \in 1..MaxInFlight : Leave(i)

SpecCounter == InitReqID /\ [][NextCounter]_vars

(***************************************************************************)
(* SpecContext: one request whose context other wrappers made and derive   *)
(* from, and one call of GetRequestID on a context of any making.          *)
(***************************************************************************)
\* req.Context() as the wrappers before the middleware left it
UpstreamContexts ==
    { Background,
      WithValue(Background, "user", StringValue(<<"u">>)),
      WithTimeout(WithValue(Background, "requestID", StringValue(<<"o", "l", "d">>))) }

\* the contexts GetRequestID is called on outside the middleware
ProbeContexts ==
    { NilContext,
      Background,
      WithValue(Background, "user", StringValue(<<"u">>)),
      WithValue(Background, "requestID", BytesValue(<<"u", "p">>)),
      WithValue(Background, "requestID", NoValue),
      WithValue(Background, "requestID", StringValue(<<"u", "p">>)),
      WithValue(WithValue(Background, "requestID", StringValue(<<"u", "p">>)),
                "requestID", BytesValue(<<"i", "d">>)),
      WithTimeout(WithValue(Background, "requestID", StringValue(<<"u", "p">>))) }

\* what a wrapper after the middleware does to the context before it calls on
Derivations == {"same", "WithTimeout", "WithValue"}

Derive(ctx, how) ==
    IF how = "WithTimeout" THEN WithTimeout(ctx)
    ELSE IF how = "WithValue" THEN WithValue(ctx, "user", StringValue(<<"u">>))
    ELSE ctx

\* a wrapper after the middleware, or the handler, reads the identifier from
\* the context it was called with and calls on with a context derived from it
Downstream(i, how) ==
    /\ calls[i].st = "served"
    /\ Len(calls[i].seenBy) < MaxDownstream
    /\ calls' = [calls EXCEPT ![i].seenBy = Append(@, GetRequestID(calls[i].ctx)),
                              ![i].ctx = Derive(@, how)]
    /\ UNCHANGED <<prefix, reqid, mintOrder, probe>>
    /\ UNCHANGED <<pathVars, routerVars, serverVars, respVars>>

\* GetRequestID(ctx) called by any code
Probe ==
    /\ ~probe.done
    /\ probe' = [probe EXCEPT !.out = GetRequestID(probe.ctx), !.done = TRUE]
    /\ UNCHANGED <<prefix, reqid, calls, mintOrder>>
    /\ UNCHANGED <<pathVars, routerVars, serverVars, respVars>>

InitContext ==
    /\ prefix \in Prefixes
    /\ reqid = 0
    /\ calls = [i \in 1..MaxCalls |->
                    [st |-> "none", headerKey |-> "", header |-> <<>>, requestID |-> <<>>,
                     myid |-> 0, reqCtx |-> <<>>, ctx |-> <<>>, seen |-> <<>>,
                     seenBy |-> <<>>]]
    /\ mintOrder = <<>>
    /\ \E ctx \in ProbeContexts : probe = [ctx |-> ctx, out |-> <<>>, done |-> FALSE]
    /\ InitPathVars
    /\ InitRouterVars
    /\ InitServerVars
    /\ InitRespVars

NextContext ==
    \/ \E key \in {defaultRequestIDHeader} \cup CustomHeaderKeys,
          header \in [CanonicalKeys -> HeaderValues], reqCtx \in UpstreamContexts :
            Arrive(1, key, header, reqCtx)
    \/ GetHeader(1)
    \/ Mint(1)
    \/ ServeNext(1)
    \/ \E how \in Derivations : Downstream(1, how)
    \/ Probe

SpecContext == InitContext /\ [][NextContext]_vars

(***************************************************************************)
(* Properties of the request-ID middleware.                                *)
(***************************************************************************)
Minted == {i \in 1..MaxCalls : calls[i].myid # 0}

\* C7: requests without the header get pairwise distinct counter values and
\* identifiers, and the increments hand out 1, 2, 3, ... in their own order,
\* none lost and none repeated.
C7_DistinctIDs ==
    /\ \A i, k \in Minted : i # k =>
            /\ calls[i].myid # calls[k].myid
            /\ calls[i].requestID # calls[k].requestID
    /\ mintOrder = [n \in 1..Len(mintOrder) |-> n]
    /\ Cardinality(Minted) = Len(mintOrder)
    /\ reqid = Len(mintOrder)
    /\ \A i \in 1..MaxCalls :
            (calls[i].st \in {"ready", "served"}
                /\ HeaderGet(calls[i].header, calls[i].headerKey) = <<>>)
                => i \in Minted

\* three requests without the header, served, the second one incremented first
C7_Witness ==
    /\ \A i \in 1..MaxCalls : calls[i].st = "served" /\ i \in Minted
    /\ calls[2].myid = 1 /\ calls[1].myid = 2 /\ calls[3].myid = 3

DigitValue(c) == CHOOSE d \in 0..9 : DigitChars[d + 1] = c

RECURSIVE ParseDecimal(_)
ParseDecimal(digits) ==
    IF digits = <<>> THEN 0
    ELSE 10 * ParseDecimal(SubSeq(digits, 1, Len(digits) - 1))
            + DigitValue(digits[Len(digits)])

IsDigits(str) == \A n \in DOMAIN str : \E d \in 1..10 : DigitChars[d] = str[n]

\* C8: the handler sees the header's value when the middleware's header is not
\* empty, and otherwise the prefix, "-" and the counter value in decimal,
\* padded with zeros to six digits.
C8_HeaderOrMinted ==
    \A i \in 1..MaxCalls : calls[i].st = "served" =>
        LET value == calls[i].header[CanonicalKey(calls[i].headerKey)]
            seen  == calls[i].seen
            n     == Len(prefix)
        IN  IF value # <<>>
            THEN seen = value
            ELSE /\ calls[i].myid >= 1
                 /\ Len(seen) = n + 1 + IDWidth
                 /\ SubSeq(seen, 1, n) = prefix
                 /\ seen[n + 1] = "-"
                 /\ IsDigits(SubSeq(seen, n + 2, Len(seen)))
                 /\ ParseDecimal(SubSeq(seen, n + 2, Len(seen))) = calls[i].myid

\* RequestID passes "up" on; the custom-header middleware, its header absent
\* while X-Request-Id is set, mints the first identifier
C8_Witness ==
    /\ prefix = <<"h", "/", "r">>
    /\ calls[1].st = "served" /\ calls[1].headerKey = defaultRequestIDHeader
    /\ calls[1].seen = <<"u", "p">>
    /\ calls[2].st = "served" /\ calls[2].headerKey = "X-Trace-Id"
    /\ calls[2].header["X-Request-Id"] = <<"u", "p">>
    /\ calls[2].seen = <<"h", "/", "r", "-", "0", "0", "0", "0", "0", "1">>


\* the requests that came with the middleware's header set
WithHeader == {i \in 1..MaxCalls :
                    /\ calls[i].st # "none"
                    /\ HeaderGet(calls[i].header, calls[i].headerKey) # <<>>}

\* C35: a request whose header is not empty never changes the counter and
\* is given no counter value; the counter is the number of identifiers
\* minted so far, so the k-th identifier minted is the prefix, "-" and k,
\* however many requests with the header came in between.
C35_HeaderLeavesCounter ==
    /\ [][\A i \in WithHeader' : calls'[i] # calls[i] => reqid' = reqid]_vars
    /\ [][reqid' # reqid =>
                \E i \in 1..MaxCalls \ WithHeader :
                    /\ calls[i].st = "mint" /\ calls'[i].st = "ready"
                    /\ calls'[i].requestID = Sprintf(prefix, Len(mintOrder) + 1)
                    /\ mintOrder' = Append(mintOrder, Len(mintOrder) + 1)]_vars
    /\ [](/\ \A i \in WithHeader : calls[i].myid = 0 /\ calls[i].st # "mint"
          /\ reqid = Cardinality({i \in 1..MaxCalls \ WithHeader :
                                        calls[i].st \in {"ready", "served"}})
          /\ \A k \in 1..Len(mintOrder) :
                \E i \in 1..MaxCalls \ WithHeader :
                    /\ calls[i].myid = k
                    /\ calls[i].requestID = Sprintf(prefix, k))

\* two requests with the header were served, one by each middleware, and
\* the one request without it has the first identifier
C35_Witness ==
    /\ WithHeader = {1, 2}
    /\ calls[1].st = "served" /\ calls[1].headerKey = defaultRequestIDHeader
    /\ calls[2].st = "served" /\ calls[2].headerKey = "X-Trace-Id"
    /\ calls[3].st = "served"
    /\ calls[3].seen = Sprintf(prefix, 1)
    /\ reqid = 1

\* C36: the counter changes only by a mint, by one, and from its largest
\* value to 0: it is never reset or decreased otherwise.  The k-th value
\* handed out is k modulo 2^CounterBits, so a value is handed out again only
\* 2^CounterBits mints later, and a mint by either middleware takes the next
\* value of the same counter.
C36_CounterWraps ==
    /\ [][reqid' # reqid =>
                /\ reqid' = (reqid + 1) % Modulus
                /\ reqid' < reqid => (reqid = Modulus - 1 /\ reqid' = 0)
                /\ \E i \in 1..MaxCalls :
                        /\ calls[i].st = "mint" /\ calls'[i].st = "ready"
                        /\ calls[i].headerKey \in {defaultRequestIDHeader} \cup CustomHeaderKeys
                        /\ calls'[i].myid = reqid'
                        /\ calls'[i].requestID = Sprintf(prefix, reqid')
                /\ mintOrder' = Append(mintOrder, reqid')]_vars
    /\ [](/\ reqid = Len(mintOrder) % Modulus
          /\ \A k \in 1..Len(mintOrder) : mintOrder[k] = k % Modulus
          /\ \A j, k \in 1..Len(mintOrder) :
                (j < k /\ mintOrder[j] = mintOrder[k]) => k - j >= Modulus)

\* the counter has wrapped: the value 1 has been handed out twice, and the
\* two requests in flight, one through each middleware, have the values
\* 0 and 1 of the second round
C36_Witness ==
    /\ Len(mintOrder) = Modulus + 1
    /\ mintOrder[1] = 1
    /\ mintOrder[Modulus] = 0
    /\ mintOrder[Modulus + 1] = 1
    /\ reqid = 1
    /\ calls[1].headerKey = defaultRequestIDHeader /\ calls[1].st = "served"
    /\ calls[1].myid = 0 /\ calls[1].seen = Sprintf(prefix, 0)
    /\ calls[2].headerKey = "X-Trace-Id" /\ calls[2].st = "served"
    /\ calls[2].myid = 1 /\ calls[2].seen = Sprintf(prefix, 1)

\* the layers of ctx that hold the key "requestID"
IDLayers(ctx) ==
    {j \in 1..Len(ctx) : ctx[j].kind = "value" /\ ctx[j].key = "requestID"}

\* ctx holds a string under the key, in the newest layer that holds the key
HoldsStringID(ctx) ==
    /\ ctx # NilContext
    /\ IDLayers(ctx) # {}
    /\ \A j \in IDLayers(ctx) : (\A k \in IDLayers(ctx) : k <= j) => ctx[j].val.type = "string"

\* C22: once the middleware has called on, the wrapper it calls, every
\* wrapper after that one and the handler read from their context the
\* identifier the middleware chose; GetRequestID of the nil context, of a
\* context without the key and of one whose value is no string is "".
C22_GetRequestID ==
    /\ \A i \in 1..MaxCalls :
          calls[i].st = "served" =>
              /\ calls[i].requestID # <<>>
              /\ calls[i].seen = calls[i].requestID
              /\ \A j \in 1..Len(calls[i].seenBy) : calls[i].seenBy[j] = calls[i].requestID
    /\ (probe.done /\ ~HoldsStringID(probe.ctx)) => probe.out = <<>>

C22_Witness ==
    /\ calls[1].st = "served"
    /\ calls[1].reqCtx # Background
    /\ calls[1].myid = 1
    /\ Len(calls[1].seenBy) = MaxDownstream
    /\ calls[1].ctx[Len(calls[1].ctx)].kind = "timeout"
    /\ probe.done
    /\ probe.ctx = WithValue(Background, "requestID", BytesValue(<<"u", "p">>))
    /\ probe.out = <<>>


(***************************************************************************)
(* Responses.  resp is an http.ResponseWriter as net/http keeps it: the    *)
(* header map the handler edits, and, from the first WriteHeader on, the   *)
(* status and the copy of the header map that is sent.  A body is a        *)
(* sequence of characters and of longer pieces of text.                    *)
(***************************************************************************)
StatusOK == 200

StatusUnauthorized == 401

StatusInternalServerError == 500

\* w.Header().Set(key, value)
HeaderSet(h, key, value) ==
    [k \in DOMAIN h \cup {key} |-> IF k = key THEN <<value>> ELSE h[k]]

\* w.Header().Add(key, value)
HeaderAdd(h, key, value) ==
    [k \in DOMAIN h \cup {key} |->
        IF k # key THEN h[k]
        ELSE IF key \in DOMAIN h THEN Append(h[key], value) ELSE <<value>>]

SetHeader(w, key, value) == [w EXCEPT !.header = HeaderSet(@, key, value)]

AddHeader(w, key, value) == [w EXCEPT !.header = HeaderAdd(@, key, value)]

\* w.WriteHeader(code): the first call fixes the status and the headers
\* sent; a later call is ignored
WriteHeader(w, code) ==
    IF w.wroteHeader THEN w
    ELSE [w EXCEPT !.wroteHeader = TRUE, !.status = code, !.sent = w.header]

\* w.Write(data): writes the header with 200 when none was written
Write(w, data) ==
    LET w1 == IF w.wroteHeader THEN w ELSE WriteHeader(w, StatusOK)
    IN  [w1 EXCEPT !.body = @ \o data]

HasPrefix(data, sig) == Len(data) >= Len(sig) /\ SubSeq(data, 1, Len(sig)) = sig

\* the tags of http.DetectContentType's HTML signatures the bodies here begin with
HtmlTags == { <<"<", "b">>, <<"<", "p">> }

\* http.DetectContentType on text
DetectContentType(data) ==
    IF HasPrefix(data, <<"<", "?", "x", "m", "l">>) THEN "text/xml; charset=utf-8"
    ELSE IF \E tag \in HtmlTags :
                /\ HasPrefix(data, tag)
                /\ Len(data) > Len(tag)
                /\ data[Len(tag) + 1] \in {" ", ">"}
         THEN "text/html; charset=utf-8"
    ELSE "text/plain; charset=utf-8"

\* what the client receives when the handler has returned: the status and
\* the headers of the first WriteHeader (200 and the header map when there
\* was none), and a Content-Type found from the body when none was sent
Response(w) ==
    LET header == IF w.wroteHeader THEN w.sent ELSE w.header
    IN  [status |-> IF w.wroteHeader THEN w.status ELSE StatusOK,
         header |-> IF "Content-Type" \in DOMAIN header \/ w.body = <<>> THEN header
                    ELSE HeaderSet(header, "Content-Type", DetectContentType(w.body)),
         body   |-> w.body]

\* http.Error(w, error, code)
Error(w, error, code) ==
    LET w1 == SetHeader(w, "Content-Type", "text/plain; charset=utf-8")
        w2 == SetHeader(w1, "X-Content-Type-Options", "nosniff")
    IN  Write(WriteHeader(w2, code), <<error, "\n">>)

\* the output of a format string printed without operands
RECURSIVE doPrintf(_)
doPrintf(format) ==
    IF format = <<>> THEN <<>>
    ELSE IF format[1] # "%" THEN <<format[1]>> \o doPrintf(Tail(format))
    ELSE IF Len(format) = 1 THEN <<"%!(NOVERB)">>
    ELSE IF format[2] = "%" THEN <<"%">> \o doPrintf(Tail(Tail(format)))
    ELSE <<"%!", format[2], "(MISSING)">> \o doPrintf(Tail(Tail(format)))

\* fmt.Fprintf(w, format)
Fprintf(w, format) == Write(w, doPrintf(format))

(***************************************************************************)
(* Go values given to the renderers: a string, an empty map with string    *)
(* keys, a channel, and an empty struct whose XML name is name.            *)
(***************************************************************************)
GoValues ==
    { [kind |-> "string", name |-> <<>>, v |-> <<"o", "k">>],
      [kind |-> "map",    name |-> <<>>, v |-> <<>>],
      [kind |-> "chan",   name |-> <<>>, v |-> <<>>],
      [kind |-> "struct", name |-> <<"b">>, v |-> <<>>],
      [kind |-> "struct", name |-> <<"T">>, v |-> <<>>] }

\* json.Marshal
jsonMarshal(x) ==
    IF x.kind = "string" THEN [err |-> "", data |-> <<"\"">> \o x.v \o <<"\"">>]
    ELSE IF x.kind \in {"map", "struct"} THEN [err |-> "", data |-> <<"{", "}">>]
    ELSE [err |-> "json: unsupported type", data |-> <<>>]

\* xml.Marshal
xmlMarshal(x) ==
    IF x.kind = "string"
    THEN [err |-> "", data |-> <<"<", "s", "t", "r", "i", "n", "g", ">">> \o x.v
                               \o <<"<", "/", "s", "t", "r", "i", "n", "g", ">">>]
    ELSE IF x.kind = "struct"
    THEN [err |-> "", data |-> <<"<">> \o x.name \o <<">", "<", "/">> \o x.name \o <<">">>]
    ELSE [err |-> "xml: unsupported type", data |-> <<>>]

\* JSON
JSON(w, data, status) ==
    LET m == jsonMarshal(data)
    IN  IF m.err # "" THEN Error(w, m.err, StatusInternalServerError)
        ELSE Write(SetHeader(WriteHeader(w, status), "Content-Type", "application/json"),
                   m.data)

\* Text, with writes that succeed
Text(w, data, status) ==
    Fprintf(SetHeader(WriteHeader(w, status), "Content-Type", "text/plain"), data)

\* XML
XML(w, data, status) ==
    LET m == xmlMarshal(data)
    IN  IF m.err # "" THEN Error(w, m.err, StatusInternalServerError)
        ELSE Write(SetHeader(WriteHeader(w, status), "Content-Type", "application/xml"),
                   m.data)

(***************************************************************************)
(* Templates.  A file is unreadable or ill-formed (ok false), or holds a   *)
(* sequence of nodes: text, or the field of the data named by an action.   *)
(* The data is a struct, given by its fields.                              *)
(***************************************************************************)
TextNode(text) == [kind |-> "text", text |-> text, field |-> ""]

FieldNode(field) == [kind |-> "field", text |-> <<>>, field |-> field]

BadFile == [ok |-> FALSE, nodes |-> <<>>]

TemplateFiles ==
    { BadFile,
      [ok |-> TRUE, nodes |-> <<TextNode(<<"h", "i">>)>>],
      [ok |-> TRUE, nodes |-> <<FieldNode("Name")>>],
      [ok |-> TRUE, nodes |-> <<TextNode(<<"<", "p", ">">>), FieldNode("Name"),
                                TextNode(<<"<", "/", "p", ">">>)>>] }

TemplateData == { EmptyHeader, [f \in {"Name"} |-> <<"J">>] }

\* template.ParseFiles(htmlFiles...): the template of the first file
ParseFiles(files) ==
    IF files = <<>> THEN [err |-> "html/template: no files named", nodes |-> <<>>]
    ELSE IF \E j \in 1..Len(files) : ~files[j].ok
    THEN [err |-> "template: parse error", nodes |-> <<>>]
    ELSE [err |-> "", nodes |-> files[1].nodes]

\* t.Execute(htmlBuffer, data): the nodes are written to the buffer in turn
\* until one fails
RECURSIVE Execute(_, _, _, _)
Execute(nodes, i, data, out) ==
    IF i > Len(nodes) THEN [err |-> "", out |-> out]
    ELSE IF nodes[i].kind = "text" THEN Execute(nodes, i + 1, data, out \o nodes[i].text)
    ELSE IF nodes[i].field \in DOMAIN data
    THEN Execute(nodes, i + 1, data, out \o data[nodes[i].field])
    ELSE [err |-> "template: can't evaluate field", out |-> out]

\* HTML, with writes that succeed
HTML(w, data, htmlFiles) ==
    LET t == ParseFiles(htmlFiles)
    IN  IF t.err # "" THEN Error(w, t.err, StatusInternalServerError)
        ELSE LET x  == Execute(t.nodes, 1, data, <<>>)
                 w1 == IF x.err # "" THEN Error(w, x.err, StatusInternalServerError)
                       ELSE w
             IN  Fprintf(SetHeader(w1, "Content-Type", "text/html"), x.out)


(***************************************************************************)
(* The handler a middleware wraps, as the steps it takes with the response *)
(* before it returns or panics.                                            *)
(***************************************************************************)
Steps ==
    { [do |-> "WriteHeader", code |-> 201, data |-> <<>>],
      [do |-> "Write",       code |-> 0,   data |-> <<"o", "k">>],
      [do |-> "panic",       code |-> 0,   data |-> <<>>],
      [do |-> "panic(nil)",  code |-> 0,   data |-> <<>>] }

Panics == {"panic", "panic(nil)"}

Scripts ==
    {sc \in SeqsUpTo(Steps, MaxSteps) : \A j \in 1..(Len(sc) - 1) : sc[j].do \notin Panics}

\* next.ServeHTTP(w, req): the response when the handler stops, and the
\* panic it stopped with
RECURSIVE RunScript(_, _, _)
RunScript(w, sc, i) ==
    IF i > Len(sc) THEN [w |-> w, panic |-> "none"]
    ELSE IF sc[i].do \in Panics THEN [w |-> w, panic |-> sc[i].do]
    ELSE IF sc[i].do = "WriteHeader" THEN RunScript(WriteHeader(w, sc[i].code), sc, i + 1)
    ELSE RunScript(Write(w, sc[i].data), sc, i + 1)

\* recover() in the deferred function: nil without a panic, the panic's
\* value otherwise; for panic(nil) it is nil, or a *runtime.PanicNilError
\* where the build has that (nilPanics)
recover(panic, nilPanics) ==
    IF panic = "panic" THEN "value"
    ELSE IF panic = "panic(nil)" /\ nilPanics THEN "PanicNilError"
    ELSE "nil"

\* Recoverer: the deferred function ends every panic of next
Recoverer(w, sc, nilPanics) ==
    LET r   == RunScript(w, sc, 1)
        err == recover(r.panic, nilPanics)
    IN  [w |-> IF err # "nil"
               THEN Error(r.w, "Internal Server Error", StatusInternalServerError)
               ELSE r.w,
         panic |-> r.panic,
         propagated |-> FALSE]

(***************************************************************************)
(* BasicAuth.  The Authorization header is absent, or has a scheme and a   *)
(* payload that is valid base64 of a text or is not.                       *)
(***************************************************************************)
NoAuth == [present |-> FALSE, scheme |-> "", valid |-> FALSE, text |-> <<>>]

AuthTexts ==
    { <<"u", ":", "p">>, <<"u", ":", "p", "q">>, <<"u", ":">>, <<"u", "p">>,
      <<":", "p">>, <<"u", ":", "p", ":", "q">>, <<"v", ":">>, <<"w", ":", "p">> }

AuthHeaders ==
    {NoAuth} \cup
    { [present |-> TRUE, scheme |-> sc, valid |-> ok, text |-> t] :
          sc \in {"Basic", "Bearer"}, ok \in BOOLEAN, t \in AuthTexts }

CredentialMaps ==
    { EmptyHeader,
      [u \in {<<"u">>} |-> <<"p">>],
      [u \in {<<"u">>, <<"v">>} |-> IF u = <<"u">> THEN <<"p", ":", "q">> ELSE <<>>] }

Realms == {"api", "my site"}

\* strings.IndexByte(text, c), counted from 1; 0 when c is not in text
IndexByte(text, c) ==
    IF \E j \in 1..Len(text) : text[j] = c
    THEN CHOOSE j \in 1..Len(text) : text[j] = c /\ \A k \in 1..(j - 1) : text[k] # c
    ELSE 0

\* req.BasicAuth()
RequestBasicAuth(auth) ==
    LET colon == IndexByte(auth.text, ":")
    IN  IF ~auth.present \/ auth.scheme # "Basic" \/ ~auth.valid \/ colon = 0
        THEN [username |-> <<>>, password |-> <<>>, ok |-> FALSE]
        ELSE [username |-> SubSeq(auth.text, 1, colon - 1),
              password |-> SubSeq(auth.text, colon + 1, Len(auth.text)),
              ok |-> TRUE]

\* a plausible slip: the lengths are not compared
ComparePrefix(x, y) ==
    IF \A j \in 1..Len(x) : j <= Len(y) => x[j] = y[j] THEN 1 ELSE 0

\* subtle.ConstantTimeCompare(x, y)
ConstantTimeCompare(x, y) ==
    IF Len(x) # Len(y) THEN 0
    ELSE IF \A j \in 1..Len(x) : x[j] = y[j] THEN 1 ELSE 0

\* fmt.Sprintf(`Basic realm="%s"`, realm), as its three parts
Challenge(realm) == <<"Basic realm=\"", realm, "\"">>

unauthorized(w, realm) ==
    WriteHeader(AddHeader(w, "WWW-Authenticate", Challenge(realm)), StatusUnauthorized)

\* BasicAuth: the response, and whether next.ServeHTTP was called
BasicAuth(w, realm, credentials, auth) ==
    LET parsed == RequestBasicAuth(auth)
    IN  IF ~parsed.ok THEN [w |-> unauthorized(w, realm), invoked |-> FALSE]
        ELSE IF \/ parsed.username \notin DOMAIN credentials
                \/ ConstantTimeCompare(parsed.password, credentials[parsed.username]) # 1
        THEN [w |-> unauthorized(w, realm), invoked |-> FALSE]
        ELSE [w |-> w, invoked |-> TRUE]

(***************************************************************************)
(* Heartbeat.                                                              *)
(***************************************************************************)
\* unicode.SimpleFold on the letters of the paths here
Fold(c) == IF c = "P" THEN "p" ELSE c

\* strings.EqualFold
EqualFold(x, y) ==
    /\ Len(x) = Len(y)
    /\ \A j \in 1..Len(x) : Fold(x[j]) = Fold(y[j])

HeartbeatMethods == {"GET", "HEAD", "POST"}

HeartbeatPaths == { <<Slash, "p">>, <<Slash, "P">>, <<Slash, "p", Slash>>, <<Slash>> }

\* Heartbeat: the response, and whether next.ServeHTTP was called
Heartbeat(w, method, path, endpoint) ==
    IF method \in {"GET", "HEAD"} /\ EqualFold(path, endpoint)
    THEN [w |-> Write(WriteHeader(SetHeader(w, "Content-Type", "text/plain"), StatusOK),
                      <<".">>),
          invoked |-> FALSE]
    ELSE [w |-> w, invoked |-> TRUE]

(***************************************************************************)
(* SpecResponse: one call of a renderer or of a middleware on a response   *)
(* nothing was written to.                                                 *)
(***************************************************************************)
Statuses == {StatusOK, 201, 404, StatusInternalServerError}

TextData == { <<>>, <<"h", "i">>, <<"<", "b", ">">>, <<"5", "%">> }

CallJSON(data, status) ==
    /\ op.fn = "none"
    /\ resp' = JSON(resp, data, status)
    /\ op' = [op EXCEPT !.fn = "JSON", !.data = data, !.status = status]
    /\ UNCHANGED <<pathVars, routerVars, serverVars, reqidVars>>

CallText(data, status) ==
    /\ op.fn = "none"
    /\ resp' = Text(resp, data, status)
    /\ op' = [op EXCEPT !.fn = "Text", !.data = data, !.status = status]
    /\ UNCHANGED <<pathVars, routerVars, serverVars, reqidVars>>

CallXML(data, status) ==
    /\ op.fn = "none"
    /\ resp' = XML(resp, data, status)
    /\ op' = [op EXCEPT !.fn = "XML", !.data = data, !.status = status]
    /\ UNCHANGED <<pathVars, routerVars, serverVars, reqidVars>>

CallHTML(data, htmlFiles) ==
    /\ op.fn = "none"
    /\ resp' = HTML(resp, data, htmlFiles)
    /\ op' = [op EXCEPT !.fn = "HTML", !.data = data, !.files = htmlFiles]
    /\ UNCHANGED <<pathVars, routerVars, serverVars, reqidVars>>

ServeRecoverer(sc, nilPanics) ==
    /\ op.fn = "none"
    /\ LET res == Recoverer(resp, sc, nilPanics)
       IN  /\ resp' = res.w
           /\ op' = [op EXCEPT !.fn = "Recoverer", !.script = sc, !.nilPanics = nilPanics,
                               !.panic = res.panic, !.propagated = res.propagated]
    /\ UNCHANGED <<pathVars, routerVars, serverVars, reqidVars>>

ServeBasicAuth(realm, credentials, auth) ==
    /\ op.fn = "none"
    /\ LET res == BasicAuth(resp, realm, credentials, auth)
       IN  /\ resp' = res.w
           /\ op' = [op EXCEPT !.fn = "BasicAuth", !.realm = realm,
                               !.credentials = credentials, !.auth = auth,
                               !.invoked = res.invoked]
    /\ UNCHANGED <<pathVars, routerVars, serverVars, reqidVars>>

ServeHeartbeat(method, path, endpoint) ==
    /\ op.fn = "none"
    /\ LET res == Heartbeat(resp, method, path, endpoint)
       IN  /\ resp' = res.w
           /\ op' = [op EXCEPT !.fn = "Heartbeat", !.method = method, !.path = path,
                               !.endpoint = endpoint, !.invoked = res.invoked]
    /\ UNCHANGED <<pathVars, routerVars, serverVars, reqidVars>>

InitResponse ==
    /\ InitPathVars
    /\ InitRouterVars
    /\ InitServerVars
    /\ InitReqidVars
    /\ InitRespVars

NextResponse ==
    \/ \E data \in GoValues, status \in Statuses : CallJSON(data, status)
    \/ \E data \in TextData, status \in Statuses : CallText(data, status)
    \/ \E data \in GoValues, status \in Statuses : CallXML(data, status)
    \/ \E data \in TemplateData, htmlFiles \in SeqsUpTo(TemplateFiles, MaxFiles) :
            CallHTML(data, htmlFiles)
    \/ \E sc \in Scripts, nilPanics \in BOOLEAN : ServeRecoverer(sc, nilPanics)
    \/ \E realm \in Realms, credentials \in CredentialMaps, auth \in AuthHeaders :
            ServeBasicAuth(realm, credentials, auth)
    \/ \E method \in HeartbeatMethods, path \in HeartbeatPaths,
          endpoint \in HeartbeatPaths : ServeHeartbeat(method, path, endpoint)

SpecResponse == InitResponse /\ [][NextResponse]_vars


(***************************************************************************)
(* Properties of the responses.                                            *)
(***************************************************************************)
\* C23: when the handler Recoverer wraps panics, at whatever step, the panic
\* does not leave Recoverer and the client receives a response whose status
\* is in the 500 class.
C23_PanicBecomes500 ==
    (op.fn = "Recoverer" /\ op.panic # "none") =>
        /\ ~op.propagated
        /\ Response(resp).status \in 500..599

\* the text holds a username of the map, then the first colon, then the
\* password the map gives for that username
CarriesCredentials(auth, credentials) ==
    /\ auth.present
    /\ auth.scheme = "Basic"
    /\ auth.valid
    /\ \E j \in 1..Len(auth.text) :
          /\ auth.text[j] = ":"
          /\ \A k \in 1..(j - 1) : auth.text[k] # ":"
          /\ SubSeq(auth.text, 1, j - 1) \in DOMAIN credentials
          /\ credentials[SubSeq(auth.text, 1, j - 1)] = SubSeq(auth.text, j + 1, Len(auth.text))

\* C24: BasicAuth calls the handler it wraps exactly when the request
\* carries Basic credentials with a username of the map and the password
\* mapped to it, and then leaves the response alone; otherwise the response
\* is 401 with a WWW-Authenticate header that names the realm.
C24_BasicAuth ==
    op.fn = "BasicAuth" =>
        /\ op.invoked <=> CarriesCredentials(op.auth, op.credentials)
        /\ op.invoked => resp = NewResponse
        /\ ~op.invoked =>
              /\ Response(resp).status = StatusUnauthorized
              /\ "WWW-Authenticate" \in DOMAIN Response(resp).header
              /\ Response(resp).header["WWW-Authenticate"] = <<Challenge(op.realm)>>
              /\ Challenge(op.realm)[2] = op.realm

C24_Witness ==
    /\ op.fn = "BasicAuth"
    /\ op.auth = [present |-> TRUE, scheme |-> "Basic", valid |-> TRUE,
                  text |-> <<"u", ":", "p">>]
    /\ <<"u">> \in DOMAIN op.credentials
    /\ op.credentials[<<"u">>] = <<"p", ":", "q">>
    /\ ~op.invoked
    /\ resp.status = StatusUnauthorized

FormatType(fn) ==
    IF fn = "JSON" THEN "application/json"
    ELSE IF fn = "XML" THEN "application/xml"
    ELSE "text/plain"

Encodes(fn, data) ==
    IF fn = "JSON" THEN jsonMarshal(data).err = ""
    ELSE IF fn = "XML" THEN xmlMarshal(data).err = ""
    ELSE TRUE

\* C25: JSON, Text and XML called with status s and data they can encode,
\* on a response nothing was written to, deliver the status s and the
\* Content-Type of the format.
C25_StatusAndContentType ==
    (op.fn \in {"JSON", "Text", "XML"} /\ Encodes(op.fn, op.data)) =>
        /\ Response(resp).status = op.status
        /\ "Content-Type" \in DOMAIN Response(resp).header
        /\ Response(resp).header["Content-Type"] = <<FormatType(op.fn)>>

\* the error of the encoding a renderer does, "" when it succeeds
EncodingError(fn, data, files) ==
    IF fn = "JSON" THEN jsonMarshal(data).err
    ELSE IF fn = "XML" THEN xmlMarshal(data).err
    ELSE IF fn = "HTML" THEN
        IF ParseFiles(files).err # "" THEN ParseFiles(files).err
        ELSE Execute(ParseFiles(files).nodes, 1, data, <<>>).err
    ELSE ""

\* C26: when the encoding of a renderer fails, the response has a status of
\* the 500 class and its body is the error text and nothing else.
C26_EncodingFailure ==
    (op.fn \in {"JSON", "XML", "HTML"} /\ EncodingError(op.fn, op.data, op.files) # "") =>
        /\ Response(resp).status \in 500..599
        /\ Response(resp).body = <<EncodingError(op.fn, op.data, op.files), "\n">>

====
